---- MODULE Spec2Model ----
(***************************************************************************)
(* trudge-cli: migration-state reconciliation for a sqlite database.       *)
(* The model covers src/src/core.ts (canonicalId, readMigrationsDir,       *)
(* readMigrationsTable, compareMigrationState, applyMigration,             *)
(* synchronizeMigrations), the util helpers it imports (index,             *)
(* valuesByKeyPred, count) and BaseApplyCommand.apply of base-cmd.ts.      *)
(*                                                                         *)
(* Strings are sequences of one-character strings, so that trim and the    *)
(* canonical string of a migration are computed, not assumed.              *)
(***************************************************************************)
EXTENDS Integers, Sequences, FiniteSets, TLC

VARIABLES
    \* the database: the tracking table and the effect of the scripts run
    tableExists,   \* whether the tracking table has been created
    ledger,        \* the rows of the tracking table (a set of Migration)
    schema,        \* the sql texts whose execution is committed, in order
    attempts,      \* history: every db.exec call, committed or not
    \* direct calls of BaseApplyCommand.apply (trudge upgrade / downgrade)
    calls,         \* history: one record per call, in order
    \* one synchronizeMigrations run
    pc,            \* position of the run
    dir,           \* the files of the migrations directory (a set of File)
    opts,          \* the options of the run
    expected,      \* readMigrationsDir's result
    before,        \* beforeState
    after,         \* summarize().after
    changes,       \* changes
    todo,          \* the part of the forEach in progress not yet visited
    log,           \* the messages given to opts.verbose
    steps,         \* history: one record per entry visited by the run
    error,         \* the error the run ended with, "none" while it has none
    start,         \* history: the database when the run started
    \* one compareMigrationState call on free inputs
    cmpExpected, cmpApplied,   \* the inputs
    cmpDone, cmpResult,        \* whether it was called, and its result
    \* one operation on migration files: a directory read, the init of
    \* trudge upgrade / downgrade, or trudge new
    result,        \* what the operation was given and how it ended
    \* history: the runs completed before the one in progress
    runs,
    \* the state of a second run over the same directory and database, held
    \* while the run in runVars has the processor
    peer

dbVars == <<tableExists, ledger, schema, attempts>>
runVars == <<pc, dir, opts, expected, before, after, changes, todo, log, steps, error, start>>
cmpVars == <<cmpExpected, cmpApplied, cmpDone, cmpResult>>
vars == <<dbVars, calls, runVars, cmpVars, result, runs, peer>>

(***************************************************************************)
(* Bounds.                                                                 *)
(***************************************************************************)
\* migration ids are 1..MaxId
MaxId == 2
\* the longest list given to compareMigrationState on free inputs
MaxLen == 2
\* the number of direct apply calls in one behaviour
MaxCalls == 3
\* the most migration files a directory holds
MaxFiles == 2
\* the most pieces the text of a file is made of
MaxPieces == 5
\* the synchronize runs made in a row over one directory and database
MaxRuns == 2

(***************************************************************************)
(* Strings.                                                                *)
(***************************************************************************)
\* the characters String.prototype.trim removes, as far as the model has them
WhiteSpace == {" ", "\n", "\t"}

RECURSIVE TrimStart(_)
TrimStart(s) ==
    IF s = <<>> THEN <<>>
    ELSE IF Head(s) \in WhiteSpace THEN TrimStart(Tail(s))
    ELSE s

RECURSIVE TrimEnd(_)
TrimEnd(s) ==
    IF s = <<>> THEN <<>>
    ELSE IF s[Len(s)] \in WhiteSpace THEN TrimEnd(SubSeq(s, 1, Len(s) - 1))
    ELSE s

\* String.prototype.trim
Trim(s) == TrimEnd(TrimStart(s))

\* the element of a set of one element; {e : x \in {v}} is e for the value
\* of v, which is computed once
The(S) == CHOOSE x \in S : TRUE

DigitChars == <<"0", "1", "2", "3", "4", "5", "6", "7", "8", "9">>

\* the decimal text of a non-negative integer, as a template literal gives it
RECURSIVE NumberToString(_)
NumberToString(n) ==
    IF n < 10 THEN <<DigitChars[n + 1]>>
    ELSE NumberToString(n \div 10) \o <<DigitChars[(n % 10) + 1]>>

(***************************************************************************)
(* Migrations.                                                             *)
(***************************************************************************)
Ids == 1 .. MaxId

Migration(i, n, u, d) == [id |-> i, name |-> n, upgrade |-> u, downgrade |-> d]

\* the migrations of the runs: one per id, and a second content for id 1 (a
\* row or a file of the same id and another content)
Contents == {<<"a">>, <<"b">>}
Universe ==
    {Migration(i, <<"n">>, <<"a">>, <<"d">>) : i \in Ids}
        \cup {Migration(1, <<"n">>, u, <<"d">>) : u \in Contents}

\* the migrations of the direct apply calls: the same
ApplyUniverse == Universe

\* the migrations given to compareMigrationState on free inputs: the same,
\* and a copy of id 1 that differs by outer white space only
CmpUniverse == ApplyUniverse \cup {Migration(1, <<"n">>, <<"a", " ">>, <<"d">>)}

\* a variant whose digest leaves the upgrade script out
canonicalIdWithoutUpgrade(m) ==
    <<"i", "d", ":">> \o NumberToString(m.id)
    \o <<"\n", "n", "a", "m", "e", ":">> \o Trim(m.name)
    \o <<"\n", "d", "o", "w", "n", "g", "r", "a", "d", "e", ":">> \o Trim(m.downgrade)

\* canonicalId: the digest of the canonical string.  The digest is taken as
\* injective (sha-1, collisions neglected), so the fingerprint is the string.
canonicalId(m) ==
    <<"i", "d", ":">> \o NumberToString(m.id)
    \o <<"\n", "n", "a", "m", "e", ":">> \o Trim(m.name)
    \o <<"\n", "u", "p", "g", "r", "a", "d", "e", ":">> \o Trim(m.upgrade)
    \o <<"\n", "d", "o", "w", "n", "g", "r", "a", "d", "e", ":">> \o Trim(m.downgrade)

(***************************************************************************)
(* util: index, valuesByKeyPred, count.  A JavaScript object with string   *)
(* keys is the sequence of its entries <<key, value>> in insertion order.  *)
(***************************************************************************)
Keys(o) == {o[i][1] : i \in DOMAIN o}

\* Object.fromEntries: a later entry of a key replaces the value in place
RECURSIVE FromEntries(_, _)
FromEntries(entries, o) ==
    IF entries = <<>> THEN o
    ELSE LET e == Head(entries)
             put == IF e[1] \in Keys(o)
                    THEN [i \in DOMAIN o |-> IF o[i][1] = e[1] THEN e ELSE o[i]]
                    ELSE Append(o, e)
         IN FromEntries(Tail(entries), put)

\* index(values, canonicalId)
index(values) ==
    FromEntries([i \in DOMAIN values |-> <<canonicalId(values[i]), values[i]>>], <<>>)

RECURSIVE FilterEntries(_, _)
FilterEntries(o, keep) ==
    IF o = <<>> THEN <<>>
    ELSE IF Head(o)[1] \in keep
         THEN <<Head(o)[2]>> \o FilterEntries(Tail(o), keep)
         ELSE FilterEntries(Tail(o), keep)

\* valuesByKeyPred(o, pred), pred given as the set of keys it accepts
valuesByKeyPred(o, keep) == FilterEntries(o, keep)

(***************************************************************************)
(* compareMigrationState.                                                  *)
(***************************************************************************)
\* insert x after the last element whose id is not greater: a stable sort
RECURSIVE InsertAscending(_, _)
InsertAscending(s, x) ==
    IF s = <<>> THEN <<x>>
    ELSE IF x.id - Head(s).id < 0 THEN <<x>> \o s
    ELSE <<Head(s)>> \o InsertAscending(Tail(s), x)

\* a variant that leaves the list as it is
SortAscendingNone(s) == s

\* Array.prototype.sort((x, y) => x.id - y.id), which is stable
RECURSIVE SortAscending(_)
SortAscending(s) ==
    IF s = <<>> THEN <<>>
    ELSE InsertAscending(SortAscending(SubSeq(s, 1, Len(s) - 1)), s[Len(s)])

\* a variant that matches by id, as the comment in the code has it
compareMigrationStateById(exp, app) ==
    LET ids(l) == {l[i].id : i \in DOMAIN l}
        byId(l, keep) == SelectSeq(l, LAMBDA m : m.id \in keep)
    IN [shared |-> SortAscending(byId(exp, ids(app))),
        missing |-> SortAscending(byId(exp, ids(exp) \ ids(app))),
        unexpected |-> SortAscending(byId(app, ids(app) \ ids(exp)))]

compareMigrationState(exp, app) ==
    LET eByFp == index(exp)
        aByFp == index(app)
        shared == valuesByKeyPred(eByFp, Keys(aByFp))
        missing == valuesByKeyPred(eByFp, Keys(eByFp) \ Keys(aByFp))
        unexpected == valuesByKeyPred(aByFp, Keys(aByFp) \ Keys(eByFp))
    IN [shared |-> SortAscending(shared),
        missing |-> SortAscending(missing),
        unexpected |-> SortAscending(unexpected)]

(***************************************************************************)
(* The database.  A transaction works on a copy of the committed state:    *)
(* the statements of its body act on the copy, a throw skips the rest of   *)
(* the body, and the copy is committed only when the body did not throw.   *)
(***************************************************************************)
Modes == {"upgrade", "downgrade"}

Script(m, mode) == IF mode = "upgrade" THEN m.upgrade ELSE m.downgrade

\* one database operation of a transaction body, for the histories
Op(op, sql, id) == [op |-> op, sql |-> sql, id |-> id]
ExecOp(sql) == Op("exec", sql, 0)
InsertOp(m) == Op("insert", <<>>, m.id)
RemoveOp(id) == Op("remove", <<>>, id)

Database == [ledger |-> ledger, schema |-> schema, attempts |-> attempts]

\* the state a transaction body starts from
Begin(db) ==
    [ledger |-> db.ledger, schema |-> db.schema, attempts |-> db.attempts,
     ops |-> <<>>, threw |-> FALSE, changes |-> 0]

\* db.exec(sql): the script runs, or fails and throws (ok is the outcome)
Exec(w, sql, ok) ==
    IF w.threw THEN w
    ELSE [w EXCEPT !.attempts = Append(@, [sql |-> sql, ok |-> ok]),
                   !.ops = Append(@, ExecOp(sql)),
                   !.schema = IF ok THEN Append(@, sql) ELSE @,
                   !.threw = ~ok]

\* a variant: an ignored insert is counted as a change
RunInsertCountsIgnored(w, m) ==
    IF w.threw THEN w
    ELSE LET conflict == \E r \in w.ledger : r.id = m.id
         IN [w EXCEPT !.ledger = IF conflict THEN @ ELSE @ \cup {m},
                      !.changes = 1,
                      !.ops = Append(@, InsertOp(m))]

\* a variant: a table without the primary key, where every insert adds a row
RunInsertNoKey(w, m) ==
    IF w.threw THEN w
    ELSE [w EXCEPT !.ledger = @ \cup {m},
                   !.changes = 1,
                   !.ops = Append(@, InsertOp(m))]

\* a variant: INSERT OR REPLACE
RunInsertOrReplace(w, m) ==
    IF w.threw THEN w
    ELSE [w EXCEPT !.ledger = {r \in @ : r.id # m.id} \cup {m},
                   !.changes = 1,
                   !.ops = Append(@, InsertOp(m))]

\* INSERT OR IGNORE INTO table (id, name, upgrade, downgrade): id is the
\* primary key, so a row of the same id makes the insert a no-op
RunInsert(w, m) ==
    IF w.threw THEN w
    ELSE LET conflict == \E r \in w.ledger : r.id = m.id
         IN [w EXCEPT !.ledger = IF conflict THEN @ ELSE @ \cup {m},
                      !.changes = IF conflict THEN 0 ELSE 1,
                      !.ops = Append(@, InsertOp(m))]

\* a variant: DELETE ... WHERE id <= ?
RunRemoveUpTo(w, id) ==
    IF w.threw THEN w
    ELSE LET hit == {r \in w.ledger : r.id <= id}
         IN [w EXCEPT !.ledger = @ \ hit,
                      !.changes = Cardinality(hit),
                      !.ops = Append(@, RemoveOp(id))]

\* DELETE FROM table WHERE id = ?
RunRemove(w, id) ==
    IF w.threw THEN w
    ELSE LET hit == {r \in w.ledger : r.id = id}
         IN [w EXCEPT !.ledger = @ \ hit,
                      !.changes = Cardinality(hit),
                      !.ops = Append(@, RemoveOp(id))]

\* a variant whose rollback restores the schema and keeps the ledger writes
TransactionKeepsLedger(db, w, ret) ==
    IF w.threw
    THEN [ledger |-> w.ledger, schema |-> db.schema, attempts |-> w.attempts,
          ops |-> w.ops, threw |-> TRUE, ret |-> FALSE]
    ELSE [ledger |-> w.ledger, schema |-> w.schema, attempts |-> w.attempts,
          ops |-> w.ops, threw |-> FALSE, ret |-> ret]

\* a variant that rethrows without rolling back
TransactionNoRollback(db, w, ret) ==
    [ledger |-> w.ledger, schema |-> w.schema, attempts |-> w.attempts,
     ops |-> w.ops, threw |-> w.threw, ret |-> ~w.threw /\ ret]

\* db.transaction(body)(): commit, or roll back and rethrow.  ret is what the
\* caller returns after the transaction when it did not throw.
Transaction(db, w, ret) ==
    IF w.threw
    THEN [ledger |-> db.ledger, schema |-> db.schema, attempts |-> w.attempts,
          ops |-> w.ops, threw |-> TRUE, ret |-> FALSE]
    ELSE [ledger |-> w.ledger, schema |-> w.schema, attempts |-> w.attempts,
          ops |-> w.ops, threw |-> FALSE, ret |-> ret]

\* a variant of the forced apply that changes the ledger before the script
applyForcedMutationFirst(db, m, mode, ok) ==
    IF mode = "upgrade"
    THEN Transaction(db, Exec(RunInsert(Begin(db), m), m.upgrade, ok), TRUE)
    ELSE Transaction(db, Exec(RunRemove(Begin(db), m.id), m.downgrade, ok), TRUE)

\* applyMigration, force = true
applyForced(db, m, mode, ok) ==
    IF mode = "upgrade"
    THEN Transaction(db, RunInsert(Exec(Begin(db), m.upgrade, ok), m), TRUE)
    ELSE Transaction(db, RunRemove(Exec(Begin(db), m.downgrade, ok), m.id), TRUE)

\* a variant of the unforced apply that runs the script whatever res.changes is
applyUnforcedAlways(db, m, mode, ok) ==
    LET w == IF mode = "upgrade" THEN RunInsert(Begin(db), m)
             ELSE RunRemove(Begin(db), m.id)
    IN Transaction(db, Exec(w, Script(m, mode), ok), TRUE)

\* a variant of the unforced apply whose delete matches the whole row
applyUnforcedExact(db, m, mode, ok) ==
    LET b == Begin(db)
        w == IF mode = "upgrade" THEN RunInsert(b, m)
             ELSE [b EXCEPT !.ledger = @ \ {m},
                            !.changes = IF m \in b.ledger THEN 1 ELSE 0,
                            !.ops = Append(@, RemoveOp(m.id))]
        applied == w.changes > 0
    IN Transaction(db, IF applied THEN Exec(w, Script(m, mode), ok) ELSE w, applied)

\* a variant of the unforced apply that runs the script and leaves the ledger
applyUnforcedNoRecord(db, m, mode, ok) ==
    Transaction(db, Exec(Begin(db), Script(m, mode), ok), TRUE)

\* applyMigration, force = false
applyUnforced(db, m, mode, ok) ==
    LET w == IF mode = "upgrade" THEN RunInsert(Begin(db), m)
             ELSE RunRemove(Begin(db), m.id)
        applied == w.changes > 0
    IN Transaction(db, IF applied THEN Exec(w, Script(m, mode), ok) ELSE w, applied)

\* whether a call reached db.exec
Executes(r) == \E i \in DOMAIN r.ops : r.ops[i].op = "exec"

\* applyMigration(db, tableName, migration, mode, force); ok is the outcome of
\* the script should the call execute it
applyMigration(db, m, mode, force, ok) ==
    IF force THEN applyForced(db, m, mode, ok) ELSE applyUnforced(db, m, mode, ok)

\* readMigrationsTable: SELECT ... ORDER BY id ASC (ids are unique)
RECURSIVE readMigrationsTable(_)
readMigrationsTable(rows) ==
    IF rows = {} THEN <<>>
    ELSE LET least == CHOOSE r \in rows : \A q \in rows : r.id <= q.id
         IN <<least>> \o readMigrationsTable(rows \ {least})

\* what one call did, for the histories
CallRecord(db, m, mode, force, ok, r) ==
    [m |-> m, mode |-> mode, force |-> force, ok |-> ok,
     ledgerBefore |-> db.ledger, schemaBefore |-> db.schema,
     ledgerAfter |-> r.ledger, schemaAfter |-> r.schema,
     ops |-> r.ops, threw |-> r.threw, ret |-> r.ret]

(***************************************************************************)
(* BaseApplyCommand.apply: trudge upgrade / trudge downgrade.              *)
(***************************************************************************)
NoState == [shared |-> <<>>, missing |-> <<>>, unexpected |-> <<>>]
NoOptions == [abortOnUnexpected |-> TRUE, forceLatestIfSynchronized |-> FALSE]

ApplyCommand(m, mode, force, ok) ==
    /\ Len(calls) < MaxCalls
    /\ LET r == applyMigration(Database, m, mode, force, ok)
       IN /\ ok \/ Executes(r)    \* a script that does not run has no outcome
          /\ tableExists' = TRUE
          /\ ledger' = r.ledger
          /\ schema' = r.schema
          /\ attempts' = r.attempts
          /\ calls' = Append(calls, CallRecord(Database, m, mode, force, ok, r))
    /\ UNCHANGED <<runVars, cmpVars, result, runs, peer>>

InitRunIdle ==
    /\ pc = "idle"
    /\ opts = NoOptions
    /\ expected = <<>>
    /\ before = NoState
    /\ after = NoState
    /\ changes = <<>>
    /\ todo = <<>>
    /\ log = <<>>
    /\ steps = <<>>
    /\ error = "none"
    /\ start = [ledger |-> {}, schema |-> <<>>]

\* a run that has not started, as InitRunIdle has it
IdleRun ==
    [pc |-> "idle", opts |-> NoOptions, expected |-> <<>>, before |-> NoState,
     after |-> NoState, changes |-> <<>>, todo |-> <<>>, log |-> <<>>, steps |-> <<>>,
     error |-> "none", start |-> [ledger |-> {}, schema |-> <<>>]]

InitCmpIdle ==
    /\ cmpExpected = <<>>
    /\ cmpApplied = <<>>
    /\ cmpDone = FALSE
    /\ cmpResult = NoState

\* no operation on files yet
NoResult ==
    [op |-> "none", arg |-> <<>>, listing |-> <<>>, dirBefore |-> {}, error |-> "none",
     file |-> <<>>, invalidIds |-> {}, migrations |-> <<>>, read |-> <<>>, wrote |-> FALSE]

InitFilesIdle ==
    /\ result = NoResult
    /\ runs = <<>>
    /\ peer = IdleRun

\* a new database file, and an empty migrations directory
InitApply ==
    /\ tableExists = FALSE
    /\ ledger = {}
    /\ schema = <<>>
    /\ attempts = <<>>
    /\ calls = <<>>
    /\ dir = {}
    /\ InitRunIdle
    /\ InitCmpIdle
    /\ InitFilesIdle

NextApply ==
    \E m \in ApplyUniverse, mode \in Modes, force \in BOOLEAN, ok \in BOOLEAN :
        ApplyCommand(m, mode, force, ok)

SpecApply == InitApply /\ [][NextApply]_vars

(***************************************************************************)
(* Migration files.  A file is its base name and its text; path.join of    *)
(* the directory and path.basename cancel out.                             *)
(***************************************************************************)
File(n, t) == [name |-> n, text |-> t]

LowerChars ==
    <<"a", "b", "c", "d", "e", "f", "g", "h", "i", "j", "k", "l", "m",
      "n", "o", "p", "q", "r", "s", "t", "u", "v", "w", "x", "y", "z">>
UpperChars ==
    <<"A", "B", "C", "D", "E", "F", "G", "H", "I", "J", "K", "L", "M",
      "N", "O", "P", "Q", "R", "S", "T", "U", "V", "W", "X", "Y", "Z">>

\* the i flag: letters compare by their lower case
UpperSet == {UpperChars[k] : k \in DOMAIN UpperChars}
ToLower(c) ==
    IF c \in UpperSet
    THEN LowerChars[CHOOSE k \in DOMAIN UpperChars : UpperChars[k] = c]
    ELSE c

\* \w, whose complement and the end of the text make \b after a letter
WordChars ==
    {LowerChars[k] : k \in DOMAIN LowerChars} \cup UpperSet
        \cup {DigitChars[k] : k \in DOMAIN DigitChars} \cup {"_"}

\* the characters after which ^ matches under the m flag, and which . skips
LineTerminators == {"\n"}

\* the text trudge:downgrade of the delimiter
Marker ==
    <<"t", "r", "u", "d", "g", "e", ":", "d", "o", "w", "n", "g", "r", "a", "d", "e">>
Dashes == <<"-", "-">>

AtLineStart(t, i) == i = 1 \/ t[i - 1] \in LineTerminators

\* whether the literal lit stands at position i of t, letters by lower case
HasAt(t, i, lit) ==
    /\ i + Len(lit) - 1 <= Len(t)
    /\ \A k \in DOMAIN lit : ToLower(t[i + k - 1]) = lit[k]

RECURSIVE SkipSpace(_, _)
SkipSpace(t, j) == IF j <= Len(t) /\ t[j] \in WhiteSpace THEN SkipSpace(t, j + 1) ELSE j

\* /^--\s*?trudge:downgrade\b/im at position i: the position after the match,
\* or 0 when there is none (the marker begins with a letter, so the lazy \s*?
\* takes all the white space there is)
DelimiterEnd(t, i) ==
    IF AtLineStart(t, i) /\ HasAt(t, i, Dashes)
    THEN LET j == SkipSpace(t, i + 2)
             e == j + Len(Marker)
         IN IF HasAt(t, j, Marker) /\ (e > Len(t) \/ t[e] \notin WordChars) THEN e ELSE 0
    ELSE 0

\* String.prototype.split by the delimiter: the parts of t from position i on,
\* the part in progress beginning at from.  The part ends before the first
\* position from i on where the delimiter matches.
RECURSIVE Split(_, _, _)
Split(t, from, i) ==
    The({IF hits = {} THEN <<SubSeq(t, from, Len(t))>>
         ELSE The({<<SubSeq(t, from, h - 1)>> \o Split(t, DelimiterEnd(t, h), DelimiterEnd(t, h)) :
                       h \in {CHOOSE k \in hits : \A l \in hits : k <= l}}) :
             hits \in {{k \in i .. Len(t) : DelimiterEnd(t, k) > 0}}})

\* the position of the line terminator that ends the line of position i, or
\* the position after the text
LineEnd(t, i) ==
    The({IF ends = {} THEN Len(t) + 1 ELSE CHOOSE j \in ends : \A k \in ends : j <= k :
             ends \in {{j \in i .. Len(t) : t[j] \in LineTerminators}}})

\* part.replace(/^--.*?$/gm, ''): a line that begins with -- loses its text
\* and keeps its line terminator.  The text from position i on, a line start.
RECURSIVE StripComments(_, _)
StripComments(t, i) ==
    IF i > Len(t) THEN <<>>
    ELSE The({(IF HasAt(t, i, Dashes) THEN <<>> ELSE SubSeq(t, i, e - 1))
                  \o (IF e > Len(t) THEN <<>> ELSE <<t[e]>> \o StripComments(t, e + 1)) :
                  e \in {LineEnd(t, i)}})

\* .map(part => part.replace(/^--.*?$/gm, '').trim())
Clean(part) == The({Trim(stripped) : stripped \in {StripComments(part, 1)}})

\* a variant that accepts an empty downgrade section
splitTemplateAnyDowngrade(template) ==
    The({The({IF Len(parts) >= 2
              THEN [ok |-> TRUE, upgrade |-> upgrade, downgrade |-> downgrade]
              ELSE [ok |-> FALSE, upgrade |-> <<>>, downgrade |-> <<>>] :
                  upgrade \in {Clean(parts[1])},
                  downgrade \in {IF Len(parts) >= 2 THEN Clean(parts[2]) ELSE <<>>}}) :
             parts \in {Split(template, 1, 1)}})

\* splitTemplate: the first two parts, comments stripped and trimmed; null
\* (ok = FALSE) when the second is undefined or empty
splitTemplate(template) ==
    The({The({IF downgrade # <<>>
              THEN [ok |-> TRUE, upgrade |-> upgrade, downgrade |-> downgrade]
              ELSE [ok |-> FALSE, upgrade |-> <<>>, downgrade |-> <<>>] :
                  upgrade \in {Clean(parts[1])},
                  downgrade \in {IF Len(parts) >= 2 THEN Clean(parts[2]) ELSE <<>>}}) :
             parts \in {Split(template, 1, 1)}})

DigitSet == {DigitChars[k] : k \in DOMAIN DigitChars}

RECURSIVE DigitsEnd(_, _)
DigitsEnd(s, i) ==
    IF i <= Len(s) /\ s[i] \in DigitSet
    THEN DigitsEnd(s, i + 1)
    ELSE i

SqlSuffix == <<".", "s", "q", "l">>

\* basename.match(MIGRATION_FILENAME_REGEX), the pattern ^(\d+)\.(.+?)\.sql$:
\* the digits up to the first dot, then the name up to the closing .sql
MatchFilename(s) ==
    LET k == DigitsEnd(s, 1)
        n == Len(s)
    IN IF /\ k > 1
          /\ k <= n
          /\ s[k] = "."
          /\ n - 4 >= k + 1
          /\ SubSeq(s, n - 3, n) = SqlSuffix
          /\ \A j \in (k + 1) .. (n - 4) : s[j] \notin LineTerminators
       THEN [ok |-> TRUE, id |-> SubSeq(s, 1, k - 1), name |-> SubSeq(s, k + 1, n - 4)]
       ELSE [ok |-> FALSE, id |-> <<>>, name |-> <<>>]

\* Number(id) of a text of digits: leading zeros do not count
RECURSIVE ToNumber(_)
ToNumber(s) ==
    IF s = <<>> THEN 0
    ELSE 10 * ToNumber(SubSeq(s, 1, Len(s) - 1))
            + (CHOOSE d \in 0 .. 9 : DigitChars[d + 1] = s[Len(s)])

NoMigration == Migration(0, <<>>, <<>>, <<>>)

\* a variant that reads and splits the file before it looks at the name
parseMigrationFileReadFirst(f) ==
    The({IF ~st.ok
         THEN [kind |-> "malformed migration", m |-> NoMigration,
               file |-> f.name, read |-> TRUE]
         ELSE IF ~mt.ok
         THEN [kind |-> "null", m |-> NoMigration, file |-> f.name, read |-> TRUE]
         ELSE [kind |-> "migration",
               m |-> Migration(ToNumber(mt.id), mt.name, st.upgrade, st.downgrade),
               file |-> f.name, read |-> TRUE] :
             mt \in {MatchFilename(f.name)}, st \in {splitTemplate(f.text)}})

\* parseMigrationFile: null for a name that does not match, before the file
\* is read; the malformed migration error for a text splitTemplate refuses;
\* otherwise the migration
parseMigrationFile(f) ==
    The({IF ~mt.ok
         THEN [kind |-> "null", m |-> NoMigration, file |-> f.name, read |-> FALSE]
         ELSE The({IF ~st.ok
                   THEN [kind |-> "malformed migration", m |-> NoMigration,
                         file |-> f.name, read |-> TRUE]
                   ELSE [kind |-> "migration",
                         m |-> Migration(ToNumber(mt.id), mt.name, st.upgrade, st.downgrade),
                         file |-> f.name, read |-> TRUE] :
                       st \in {splitTemplate(f.text)}}) :
             mt \in {MatchFilename(f.name)}})

\* .map((x) => parseMigrationFile(path.join(dir, x)))
RECURSIVE ParseAll(_)
ParseAll(listing) ==
    IF listing = <<>> THEN <<>>
    ELSE <<parseMigrationFile(Head(listing))>> \o ParseAll(Tail(listing))

(***************************************************************************)
(* readMigrationsDir.  readdirSync lists the files in an order the code    *)
(* does not fix.                                                           *)
(***************************************************************************)
\* a file that parses to m, its name beginning with prefix
MigrationFile(prefix, m) ==
    File(prefix \o NumberToString(m.id) \o <<".">> \o m.name \o SqlSuffix,
         m.upgrade \o <<"\n">> \o Dashes \o Marker \o <<"\n">> \o m.downgrade)

\* the files of the runs: one per migration of Universe, the second content
\* of an id in a file named with a leading zero
FileOf(m) == MigrationFile(IF m.upgrade = <<"a">> THEN <<>> ELSE <<"0">>, m)
GoodFiles == {FileOf(m) : m \in Universe}
\* a candidate without delimiter, and a file that is no candidate
MalformedFile == File(<<"9", ".", "n">> \o SqlSuffix, <<"a">>)
StrayFile == File(<<"n", ".", "t", "x", "t">>, <<"a", "\n">> \o Dashes \o Marker \o <<"\n", "d">>)
\* the directories of the runs: up to MaxFiles good files, or at most one
\* good file next to the malformed one, the stray one or both
Dirs ==
    {g \in SUBSET GoodFiles : Cardinality(g) <= MaxFiles}
        \cup {s \cup x : s \in {g \in SUBSET GoodFiles : Cardinality(g) <= 1},
                          x \in (SUBSET {MalformedFile, StrayFile}) \ {{}}}

RECURSIVE Listings(_)
Listings(files) ==
    IF files = {} THEN {<<>>}
    ELSE UNION {{<<f>> \o l : l \in Listings(files \ {f})} : f \in files}

\* count(migrations, m => m.id), as the function from the keys to the counts
count(migrations) ==
    [k \in {migrations[i].id : i \in DOMAIN migrations} |->
        Cardinality({i \in DOMAIN migrations : migrations[i].id = k})]

\* a variant that reports only the first id that occurs more than once
readMigrationsDirFirstDuplicate(listing) ==
    The({
        LET bad == {i \in DOMAIN parsed : parsed[i].kind = "malformed migration"}
            last == IF bad = {} THEN Len(listing) ELSE CHOOSE i \in bad : \A j \in bad : i <= j
            opened == SelectSeq(SubSeq(parsed, 1, last), LAMBDA r : r.read)
            read == [i \in DOMAIN opened |-> opened[i].file]
            found == SelectSeq(parsed, LAMBDA r : r.kind = "migration")
            migrations == [i \in DOMAIN found |-> found[i].m]
            counts == count(migrations)
            invalidIds == {k \in DOMAIN counts : counts[k] > 1}
        IN IF bad # {}
           THEN [ok |-> FALSE, error |-> "malformed migration", migrations |-> <<>>,
                 invalidIds |-> {},
                 file |-> listing[last].name, read |-> read]
           ELSE IF invalidIds # {}
           THEN [ok |-> FALSE, error |-> "duplicate ids", migrations |-> <<>>,
                 invalidIds |-> {CHOOSE k \in invalidIds : \A q \in invalidIds : k <= q},
                 file |-> <<>>, read |-> read]
           ELSE [ok |-> TRUE, error |-> "none", migrations |-> migrations,
                 invalidIds |-> {}, file |-> <<>>, read |-> read] :
        parsed \in {ParseAll(listing)}})

\* readMigrationsDir on a listing: the files parsed in turn (the first file
\* splitTemplate refuses throws), the nulls dropped, then the duplicate-id
\* check over all the migrations
readMigrationsDir(listing) ==
    The({
        LET bad == {i \in DOMAIN parsed : parsed[i].kind = "malformed migration"}
            last == IF bad = {} THEN Len(listing) ELSE CHOOSE i \in bad : \A j \in bad : i <= j
            opened == SelectSeq(SubSeq(parsed, 1, last), LAMBDA r : r.read)
            read == [i \in DOMAIN opened |-> opened[i].file]
            found == SelectSeq(parsed, LAMBDA r : r.kind = "migration")
            migrations == [i \in DOMAIN found |-> found[i].m]
            counts == count(migrations)
            invalidIds == {k \in DOMAIN counts : counts[k] > 1}
        IN IF bad # {}
           THEN [ok |-> FALSE, error |-> "malformed migration", migrations |-> <<>>,
                 invalidIds |-> {},
                 file |-> listing[last].name, read |-> read]
           ELSE IF invalidIds # {}
           THEN [ok |-> FALSE, error |-> "duplicate ids", migrations |-> <<>>,
                 invalidIds |-> invalidIds, file |-> <<>>, read |-> read]
           ELSE [ok |-> TRUE, error |-> "none", migrations |-> migrations,
                 invalidIds |-> {}, file |-> <<>>, read |-> read] :
        parsed \in {ParseAll(listing)}})

(***************************************************************************)
(* synchronizeMigrations, one step per apply.                              *)
(***************************************************************************)
RECURSIVE Reverse(_)
Reverse(s) == IF s = <<>> THEN <<>> ELSE Append(Reverse(Tail(s)), Head(s))

\* a variant of applyLatest that does not look at missing
applyLatestIgnoresMissing(o, beforeState) ==
    /\ o.forceLatestIfSynchronized
    /\ Len(beforeState.shared) > 0
    /\ Len(beforeState.unexpected) = 0

\* applyLatest
applyLatest(o, beforeState) ==
    /\ o.forceLatestIfSynchronized
    /\ Len(beforeState.shared) > 0
    /\ Len(beforeState.missing) = 0
    /\ Len(beforeState.unexpected) = 0

\* a variant of AfterMissing that returns without summarize()
AfterMissingNoSummary(o, beforeState) ==
    IF applyLatest(o, beforeState) THEN [pc |-> "latest", todo |-> <<>>]
    ELSE [pc |-> "done", todo |-> <<>>]

\* where the run stands once the walk along missing is over
AfterMissing(o, beforeState) ==
    IF applyLatest(o, beforeState) THEN [pc |-> "latest", todo |-> <<>>]
    ELSE [pc |-> "summarize", todo |-> <<>>]

\* a variant of AfterUnexpected that leaves out the oldest missing migration
AfterUnexpectedSkipFirst(o, beforeState) ==
    IF Len(beforeState.missing) > 1
    THEN [pc |-> "upgrade", todo |-> Tail(beforeState.missing)]
    ELSE AfterMissing(o, beforeState)

\* a variant of AfterUnexpected that walks missing backwards
AfterUnexpectedBackward(o, beforeState) ==
    IF Len(beforeState.missing) > 0
    THEN [pc |-> "upgrade", todo |-> Reverse(beforeState.missing)]
    ELSE AfterMissing(o, beforeState)

\* where the run stands once the walk along unexpected is over
AfterUnexpected(o, beforeState) ==
    IF Len(beforeState.missing) > 0
    THEN [pc |-> "upgrade", todo |-> beforeState.missing]
    ELSE AfterMissing(o, beforeState)

\* a variant of AfterLoad that unwinds the shared rows with the unexpected ones
AfterLoadUnwindShared(o, beforeState) ==
    IF Len(beforeState.unexpected) > 0
    THEN IF o.abortOnUnexpected THEN [pc |-> "summarize", todo |-> <<>>]
         ELSE [pc |-> "downgrade",
               todo |-> Reverse(beforeState.unexpected) \o Reverse(beforeState.shared)]
    ELSE AfterUnexpected(o, beforeState)

\* a variant of AfterLoad that walks missing before unexpected
AfterLoadUpgradeFirst(o, beforeState) ==
    IF Len(beforeState.unexpected) > 0 /\ o.abortOnUnexpected
    THEN [pc |-> "summarize", todo |-> <<>>]
    ELSE IF Len(beforeState.missing) > 0
    THEN [pc |-> "upgrade", todo |-> beforeState.missing]
    ELSE IF Len(beforeState.unexpected) > 0
    THEN [pc |-> "downgrade", todo |-> Reverse(beforeState.unexpected)]
    ELSE AfterMissing(o, beforeState)

\* a variant of AfterLoad that never aborts
AfterLoadNoAbort(o, beforeState) ==
    IF Len(beforeState.unexpected) > 0
    THEN [pc |-> "downgrade", todo |-> Reverse(beforeState.unexpected)]
    ELSE AfterUnexpected(o, beforeState)

\* a variant of AfterLoad that walks unexpected forwards
AfterLoadForward(o, beforeState) ==
    IF Len(beforeState.unexpected) > 0
    THEN IF o.abortOnUnexpected THEN [pc |-> "summarize", todo |-> <<>>]
         ELSE [pc |-> "downgrade", todo |-> beforeState.unexpected]
    ELSE AfterUnexpected(o, beforeState)

\* where the run stands after Load: the abort, or the first walk
AfterLoad(o, beforeState) ==
    IF Len(beforeState.unexpected) > 0
    THEN IF o.abortOnUnexpected THEN [pc |-> "summarize", todo |-> <<>>]
         ELSE [pc |-> "downgrade", todo |-> Reverse(beforeState.unexpected)]
    ELSE AfterUnexpected(o, beforeState)

\* a variant that skips the upgrades when downgrades came before them
AfterEntryNoUpgradeAfterDowngrade(o, beforeState, mode, rest) ==
    IF rest # <<>> THEN [pc |-> mode, todo |-> rest]
    ELSE AfterMissing(o, beforeState)

\* where the run stands after the entry at the head of todo
AfterEntry(o, beforeState, mode, rest) ==
    IF rest # <<>> THEN [pc |-> mode, todo |-> rest]
    ELSE IF mode = "downgrade" THEN AfterUnexpected(o, beforeState)
    ELSE AfterMissing(o, beforeState)

Message(kind, m, mode) == [kind |-> kind, mode |-> mode, m |-> m]

\* a variant that reports nothing when the apply throws
ApplyMessagesSilentFailure(m, mode, r) ==
    IF r.threw THEN <<Message("starting", m, mode)>>
    ELSE <<Message("starting", m, mode), Message("finished", m, mode)>>

\* the messages of the inner apply(): starting, then finished or failed
ApplyMessages(m, mode, r) ==
    <<Message("starting", m, mode),
      Message(IF r.threw THEN "failed" ELSE "finished", m, mode)>>

StepRecord(db, m, mode, force, approved, ok, r) ==
    [approved |-> approved, call |-> CallRecord(db, m, mode, force, ok, r)]

\* the result of a call that was not made (a vetoed entry)
NoCall(db) == Transaction(db, Begin(db), FALSE)

Options == [abortOnUnexpected : BOOLEAN, forceLatestIfSynchronized : BOOLEAN]

\* a variant of Load that creates the table before it reads the directory
LoadTableFirst(o, listing) ==
    /\ pc = "idle"
    /\ opts' = o
    /\ start' = [ledger |-> ledger, schema |-> schema]
    /\ \E rd \in {readMigrationsDir(listing)} :
          IF ~rd.ok
          THEN /\ pc' = "failed"
               /\ error' = rd.error
               /\ tableExists' = TRUE
               /\ UNCHANGED <<expected, before, todo>>
          ELSE LET beforeState ==
                       compareMigrationState(rd.migrations, readMigrationsTable(ledger))
                   next == AfterLoad(o, beforeState)
               IN /\ tableExists' = TRUE
                  /\ expected' = rd.migrations
                  /\ before' = beforeState
                  /\ pc' = next.pc
                  /\ todo' = next.todo
                  /\ error' = "none"
    /\ UNCHANGED <<ledger, schema, attempts, calls, dir, after, changes, log, steps, cmpVars, result, runs, peer>>

\* Load and Decide-abort: lines 321-360 up to the first apply
Load(o, listing) ==
    /\ pc = "idle"
    /\ opts' = o
    /\ start' = [ledger |-> ledger, schema |-> schema]
    /\ \E rd \in {readMigrationsDir(listing)} :
          IF ~rd.ok
          THEN /\ pc' = "failed"
               /\ error' = rd.error
               /\ UNCHANGED <<tableExists, expected, before, todo>>
          ELSE LET beforeState ==
                       compareMigrationState(rd.migrations, readMigrationsTable(ledger))
                   next == AfterLoad(o, beforeState)
               IN /\ tableExists' = TRUE
                  /\ expected' = rd.migrations
                  /\ before' = beforeState
                  /\ pc' = next.pc
                  /\ todo' = next.todo
                  /\ error' = "none"
    /\ UNCHANGED <<ledger, schema, attempts, calls, dir, after, changes, log, steps, cmpVars, result, runs, peer>>

\* a variant of ApplyStep that catches the error and goes on
ApplyStepSwallow(m, mode, force, ok, next) ==
    LET r == applyMigration(Database, m, mode, force, ok)
    IN /\ ok \/ Executes(r)
       /\ ledger' = r.ledger
       /\ schema' = r.schema
       /\ attempts' = r.attempts
       /\ log' = log \o ApplyMessages(m, mode, r)
       /\ steps' = Append(steps, StepRecord(Database, m, mode, force, TRUE, ok, r))
       /\ pc' = next.pc
       /\ todo' = next.todo
       /\ changes' = IF r.ret THEN Append(changes, <<m, mode>>) ELSE changes
       /\ UNCHANGED error

\* a variant of ApplyStep that undoes the whole run when a script fails
ApplyStepGlobalRollback(m, mode, force, ok, next) ==
    LET r == applyMigration(Database, m, mode, force, ok)
    IN /\ ok \/ Executes(r)
       /\ attempts' = r.attempts
       /\ log' = log \o ApplyMessages(m, mode, r)
       /\ steps' = Append(steps, StepRecord(Database, m, mode, force, TRUE, ok, r))
       /\ IF r.threw
          THEN /\ ledger' = start.ledger
               /\ schema' = start.schema
               /\ pc' = "failed"
               /\ error' = "script failed"
               /\ UNCHANGED <<changes, todo>>
          ELSE /\ ledger' = r.ledger
               /\ schema' = r.schema
               /\ pc' = next.pc
               /\ todo' = next.todo
               /\ changes' = IF r.ret THEN Append(changes, <<m, mode>>) ELSE changes
               /\ UNCHANGED error

\* a variant of ApplyStep that records the entry whatever apply returned
ApplyStepAlwaysPush(m, mode, force, ok, next) ==
    LET r == applyMigration(Database, m, mode, force, ok)
    IN /\ ok \/ Executes(r)    \* a script that does not run has no outcome
       /\ ledger' = r.ledger
       /\ schema' = r.schema
       /\ attempts' = r.attempts
       /\ log' = log \o ApplyMessages(m, mode, r)
       /\ steps' = Append(steps, StepRecord(Database, m, mode, force, TRUE, ok, r))
       /\ IF r.threw
          THEN /\ pc' = "failed"
               /\ error' = "script failed"
               /\ UNCHANGED <<changes, todo>>
          ELSE /\ pc' = next.pc
               /\ todo' = next.todo
               /\ changes' = Append(changes, <<m, mode>>)
               /\ UNCHANGED error

\* the inner apply() and what the run does with its result
ApplyStep(m, mode, force, ok, next) ==
    LET r == applyMigration(Database, m, mode, force, ok)
    IN /\ ok \/ Executes(r)    \* a script that does not run has no outcome
       /\ ledger' = r.ledger
       /\ schema' = r.schema
       /\ attempts' = r.attempts
       /\ log' = log \o ApplyMessages(m, mode, r)
       /\ steps' = Append(steps, StepRecord(Database, m, mode, force, TRUE, ok, r))
       /\ IF r.threw
          THEN /\ pc' = "failed"
               /\ error' = "script failed"
               /\ UNCHANGED <<changes, todo>>
          ELSE /\ pc' = next.pc
               /\ todo' = next.todo
               /\ changes' = IF r.ret THEN Append(changes, <<m, mode>>) ELSE changes
               /\ UNCHANGED error

\* a variant of Visit that applies the entry whatever the predicate returned
VisitIgnoringVeto(approve, ok) ==
    /\ pc \in {"downgrade", "upgrade"}
    /\ LET m == Head(todo)
           next == AfterEntry(opts, before, pc, Tail(todo))
           r == applyMigration(Database, m, pc, FALSE, ok)
       IN /\ ok \/ Executes(r)
          /\ ledger' = r.ledger
          /\ schema' = r.schema
          /\ attempts' = r.attempts
          /\ log' = log \o ApplyMessages(m, pc, r)
          /\ steps' = Append(steps, StepRecord(Database, m, pc, FALSE, approve, ok, r))
          /\ IF r.threw
             THEN /\ pc' = "failed"
                  /\ error' = "script failed"
                  /\ UNCHANGED <<changes, todo>>
             ELSE /\ pc' = next.pc
                  /\ todo' = next.todo
                  /\ changes' = IF r.ret THEN Append(changes, <<m, pc>>) ELSE changes
                  /\ UNCHANGED error
    /\ UNCHANGED <<tableExists, calls, dir, opts, expected, before, after, start, cmpVars, result, runs, peer>>

\* one entry of a forEach: lines 363-372 (downgrade) and 377-383 (upgrade)
Visit(approve, ok) ==
    /\ pc \in {"downgrade", "upgrade"}
    /\ LET m == Head(todo)
           next == AfterEntry(opts, before, pc, Tail(todo))
       IN IF approve
          THEN ApplyStep(m, pc, FALSE, ok, next)
          ELSE /\ ok
               /\ pc' = next.pc
               /\ todo' = next.todo
               /\ steps' = Append(steps,
                     StepRecord(Database, m, pc, FALSE, FALSE, ok, NoCall(Database)))
               /\ UNCHANGED <<ledger, schema, attempts, log, changes, error>>
    /\ UNCHANGED <<tableExists, calls, dir, opts, expected, before, after, start, cmpVars, result, runs, peer>>

\* a variant of RerunLatest that takes the first shared migration
RerunLatestFirst(ok) ==
    /\ pc = "latest"
    /\ ApplyStep(before.shared[1], "upgrade", TRUE, ok,
                 [pc |-> "summarize", todo |-> <<>>])
    /\ UNCHANGED <<tableExists, calls, dir, opts, expected, before, after, start, cmpVars, result, runs, peer>>

\* Rerun-latest: lines 386-391
RerunLatest(ok) ==
    /\ pc = "latest"
    /\ ApplyStep(before.shared[Len(before.shared)], "upgrade", TRUE, ok,
                 [pc |-> "summarize", todo |-> <<>>])
    /\ UNCHANGED <<tableExists, calls, dir, opts, expected, before, after, start, cmpVars, result, runs, peer>>

\* a variant of summarize() that reports the state read at Load
SummarizeStale ==
    /\ pc = "summarize"
    /\ after' = before
    /\ pc' = "done"
    /\ UNCHANGED <<dbVars, calls, dir, opts, expected, before, changes, todo, log, steps,
                   error, start, cmpVars, result, runs, peer>>

\* summarize(): lines 330-336
Summarize ==
    /\ pc = "summarize"
    /\ after' = compareMigrationState(expected, readMigrationsTable(ledger))
    /\ pc' = "done"
    /\ UNCHANGED <<dbVars, calls, dir, opts, expected, before, changes, todo, log, steps,
                   error, start, cmpVars, result, runs, peer>>

\* the ledgers the applies can leave: at most one row per id
Ledgers == {l \in SUBSET Universe : \A r, q \in l : r.id = q.id => r = q}

Init ==
    /\ ledger \in Ledgers
    /\ tableExists \in (IF ledger = {} THEN BOOLEAN ELSE {TRUE})
    /\ schema = <<>>
    /\ attempts = <<>>
    /\ calls = <<>>
    /\ dir \in Dirs
    /\ InitRunIdle
    /\ InitCmpIdle
    /\ InitFilesIdle

Next ==
    \/ \E o \in Options, listing \in Listings(dir) : Load(o, listing)
    \/ \E approve \in BOOLEAN, ok \in BOOLEAN : Visit(approve, ok)
    \/ \E ok \in BOOLEAN : RerunLatest(ok)
    \/ Summarize

Spec == Init /\ [][Next]_vars

(***************************************************************************)
(* synchronizeMigrations with the default options, run again on the        *)
(* directory and the database the run before left.                         *)
(***************************************************************************)
\* what a completed run returned, and the database it left
RunRecord ==
    [before |-> before, after |-> after, changes |-> changes, database |-> Database]

\* the caller takes the result of a completed run and is ready to call again
Again ==
    /\ pc = "done"
    /\ Len(runs) + 1 < MaxRuns
    /\ runs' = Append(runs, RunRecord)
    /\ pc' = "idle"
    /\ opts' = NoOptions
    /\ expected' = <<>>
    /\ before' = NoState
    /\ after' = NoState
    /\ changes' = <<>>
    /\ todo' = <<>>
    /\ log' = <<>>
    /\ steps' = <<>>
    /\ error' = "none"
    /\ start' = [ledger |-> {}, schema |-> <<>>]
    /\ UNCHANGED <<dbVars, calls, dir, cmpVars, result, peer>>

\* alwaysTrue approves every entry; forceLatestIfSynchronized is off, so
\* Rerun-latest is never reached
NextTwice ==
    \/ \E listing \in Listings(dir) : Load(NoOptions, listing)
    \/ \E ok \in BOOLEAN : Visit(TRUE, ok)
    \/ Summarize
    \/ Again

SpecTwice == Init /\ [][NextTwice]_vars

(***************************************************************************)
(* Two synchronizeMigrations runs with the default options over one        *)
(* directory and one database, each in a process of its own.  Every apply  *)
(* is one transaction of the database, so the runs interleave between      *)
(* their transactions and not within them.                                 *)
(***************************************************************************)
\* the state of the run that has the processor
CurrentRun ==
    [pc |-> pc, opts |-> opts, expected |-> expected, before |-> before,
     after |-> after, changes |-> changes, todo |-> todo, log |-> log, steps |-> steps,
     error |-> error, start |-> start]

\* the other process is scheduled: the run in progress waits where it is
Yield ==
    /\ peer' = CurrentRun
    /\ pc' = peer.pc
    /\ opts' = peer.opts
    /\ expected' = peer.expected
    /\ before' = peer.before
    /\ after' = peer.after
    /\ changes' = peer.changes
    /\ todo' = peer.todo
    /\ log' = peer.log
    /\ steps' = peer.steps
    /\ error' = peer.error
    /\ start' = peer.start
    /\ UNCHANGED <<dbVars, calls, dir, cmpVars, result, runs>>

NextPair ==
    \/ \E listing \in Listings(dir) : Load(NoOptions, listing)
    \/ \E ok \in BOOLEAN : Visit(TRUE, ok)
    \/ Summarize
    \/ Yield

SpecPair == Init /\ [][NextPair]_vars

(***************************************************************************)
(* One compareMigrationState call on free inputs.                          *)
(***************************************************************************)
RECURSIVE SeqsUpTo(_, _)
SeqsUpTo(S, n) ==
    IF n = 0 THEN {<<>>}
    ELSE LET shorter == SeqsUpTo(S, n - 1)
         IN shorter \cup {Append(s, x) : s \in shorter, x \in S}

InitCompare ==
    /\ tableExists = FALSE
    /\ ledger = {}
    /\ schema = <<>>
    /\ attempts = <<>>
    /\ calls = <<>>
    /\ dir = {}
    /\ InitRunIdle
    /\ cmpExpected \in SeqsUpTo(CmpUniverse, MaxLen)
    /\ cmpApplied \in SeqsUpTo(CmpUniverse, MaxLen)
    /\ cmpDone = FALSE
    /\ cmpResult = NoState
    /\ InitFilesIdle

Compare ==
    /\ ~cmpDone
    /\ cmpDone' = TRUE
    /\ cmpResult' = compareMigrationState(cmpExpected, cmpApplied)
    /\ UNCHANGED <<dbVars, calls, runVars, cmpExpected, cmpApplied, result, runs, peer>>

NextCompare == Compare

SpecCompare == InitCompare /\ [][NextCompare]_vars

(***************************************************************************)
(* One operation on migration files: readMigrationsDir on a directory, the *)
(* init of trudge upgrade / downgrade on a file, or trudge new.            *)
(***************************************************************************)
\* the pieces the texts of the files are made of: sql text, a line end, the
\* two dashes, and the marker in mixed case
Pieces == {<<"a">>, <<"\n">>, Dashes,
           <<"T", "r", "u", "d", "g", "e", ":", "D", "o", "w", "n", "g", "r", "a", "d", "e">>}

RECURSIVE Flatten(_)
Flatten(ss) == IF ss = <<>> THEN <<>> ELSE Head(ss) \o Flatten(Tail(ss))

Templates == {Flatten(ss) : ss \in SeqsUpTo(Pieces, MaxPieces)}

\* file names: two candidates of id 1 and two of id 2, and two that are none
CandidateNames ==
    {<<"1", ".", "n">> \o SqlSuffix, <<"0", "1", ".", "n">> \o SqlSuffix,
     <<"2", ".", "n">> \o SqlSuffix, <<"0", "2", ".", "n">> \o SqlSuffix}
OtherNames == {<<"n">> \o SqlSuffix, <<"1", ".", "n", ".", "t", "x", "t">>}
FileNames == CandidateNames \cup OtherNames

GoodText == <<"a", "\n">> \o Dashes \o Marker \o <<"\n", "d">>
BadText == <<"a">>
NamedFiles == {File(n, t) : n \in FileNames, t \in {GoodText, BadText}}

\* the directories of the operations: one candidate of any text, or up to
\* MaxFiles named files, or any of the well-formed candidates with or
\* without the malformed one; a directory holds one file per name
FileDirs ==
    {{File(<<"1", ".", "n">> \o SqlSuffix, t)} : t \in Templates}
        \cup {d \in SUBSET NamedFiles :
                /\ Cardinality(d) <= MaxFiles
                /\ \A f, g \in d : f.name = g.name => f = g}
        \cup {d \cup x : d \in SUBSET {File(n, GoodText) : n \in CandidateNames},
                          x \in SUBSET {MalformedFile}}

\* Number(text): the value of a text of digits, NaN (no id equals it) otherwise
NaN == -1
Number(s) == IF s # <<>> /\ DigitsEnd(s, 1) > Len(s) THEN ToNumber(s) ELSE NaN

ReadDir(listing) ==
    /\ result.op = "none"
    /\ \E rd \in {readMigrationsDir(listing)} :
          result' = [op |-> "readMigrationsDir", arg |-> <<>>,
                     listing |-> [i \in DOMAIN listing |-> listing[i].name],
                     dirBefore |-> dir, error |-> rd.error, file |-> rd.file,
                     invalidIds |-> rd.invalidIds, migrations |-> rd.migrations,
                     read |-> rd.read, wrote |-> FALSE]
    /\ UNCHANGED <<dbVars, calls, runVars, cmpVars, runs, peer>>

\* BaseApplyCommand.init: the file given to trudge upgrade / downgrade is
\* parsed before run(); this.error ends the command
ApplyInit(f) ==
    /\ result.op = "none"
    /\ \E r \in {parseMigrationFile(f)} :
       LET err == IF r.kind = "null" THEN "malformed filename"
                  ELSE IF r.kind = "malformed migration" THEN "malformed migration"
                  ELSE "none"
       IN result' = [op |-> "init", arg |-> f.name, listing |-> <<>>,
                     dirBefore |-> dir, error |-> err,
                     file |-> IF err = "none" THEN <<>> ELSE f.name,
                     invalidIds |-> {},
                     migrations |-> IF err = "none" THEN <<r.m>> ELSE <<>>,
                     read |-> IF r.read THEN <<f.name>> ELSE <<>>, wrote |-> FALSE]
    /\ UNCHANGED <<dbVars, calls, runVars, cmpVars, runs, peer>>

\* New.run (trudge new).  [id, name] takes the whole match and the digits, or
\* two undefined when the name does not match; id === null is then false, and
\* the name that is undefined makes canonicalId throw a TypeError
NewCommand(name, tpl, listing) ==
    /\ result.op = "none"
    /\ \E mt \in {MatchFilename(name)}, parts \in {splitTemplate(tpl)},
             rd \in {readMigrationsDir(listing)} :
       LET idIsNull == FALSE
           id == IF mt.ok THEN Number(name) ELSE NaN
           same == SelectSeq(rd.migrations, LAMBDA o : o.id = id)
           exists == \E f \in dir : f.name = name
           err == IF idIsNull THEN "malformed filename"
                  ELSE IF ~parts.ok THEN "malformed template"
                  ELSE IF ~rd.ok THEN rd.error
                  ELSE IF same # <<>> THEN "id conflict"
                  ELSE IF ~mt.ok THEN "type error"
                  ELSE IF exists THEN "file exists"
                  ELSE "none"
       IN /\ result' = [op |-> "new", arg |-> name,
                        listing |-> [i \in DOMAIN listing |-> listing[i].name],
                        dirBefore |-> dir, error |-> err,
                        file |-> IF err = "malformed filename" THEN name
                                 ELSE IF err \in {"malformed migration", "duplicate ids"}
                                 THEN rd.file ELSE <<>>,
                        invalidIds |-> IF err = "duplicate ids" THEN rd.invalidIds ELSE {},
                        migrations |-> <<>>,
                        read |-> IF idIsNull \/ ~parts.ok THEN <<>> ELSE rd.read,
                        wrote |-> err = "none"]
          /\ dir' = IF err = "none" THEN dir \cup {File(name, tpl)} ELSE dir
    /\ UNCHANGED <<dbVars, calls, pc, opts, expected, before, after, changes, todo, log,
                   steps, error, start, cmpVars, runs, peer>>

\* the names and the templates given to trudge new
NewNames == {<<"2", ".", "n">> \o SqlSuffix, <<"n">> \o SqlSuffix}
NewTemplates == {GoodText, BadText}

InitFiles ==
    /\ tableExists = FALSE
    /\ ledger = {}
    /\ schema = <<>>
    /\ attempts = <<>>
    /\ calls = <<>>
    /\ dir \in FileDirs
    /\ InitRunIdle
    /\ InitCmpIdle
    /\ InitFilesIdle

NextFiles ==
    \/ \E listing \in Listings(dir) : ReadDir(listing)
    \/ \E f \in dir : ApplyInit(f)
    \/ \E name \in NewNames, tpl \in NewTemplates, listing \in Listings(dir) :
        NewCommand(name, tpl, listing)

SpecFiles == InitFiles /\ [][NextFiles]_vars

(***************************************************************************)
(* canonicalId on two migrations of free fields, called again and again.   *)
(***************************************************************************)
\* the fields of the digested migrations: texts with outer white space, and
\* texts that hold a line of the canonical string
DigestNames == {<<"n">>, <<"n", " ">>}
DigestUpgrades ==
    {<<"a">>, <<" ", "a">>, <<"a", "\n", "d", "o", "w", "n", "g", "r", "a", "d", "e", ":", "d">>}
DigestDowngrades ==
    {<<"d">>, <<"d", "\n", "d", "o", "w", "n", "g", "r", "a", "d", "e", ":", "d">>}
DigestUniverse ==
    {Migration(i, n, u, d) : i \in Ids, n \in DigestNames,
                             u \in DigestUpgrades, d \in DigestDowngrades}

NoDigests == [op |-> "canonicalId", digests |-> <<>>]

InitDigest ==
    /\ tableExists = FALSE
    /\ ledger = {}
    /\ schema = <<>>
    /\ attempts = <<>>
    /\ calls = <<>>
    /\ dir = {}
    /\ InitRunIdle
    /\ cmpExpected \in {<<m, o>> : m, o \in DigestUniverse}
    /\ cmpApplied = <<>>
    /\ cmpDone = FALSE
    /\ cmpResult = NoState
    /\ result = NoDigests
    /\ runs = <<>>
    /\ peer = IdleRun

\* one more call of canonicalId on each of the two migrations
Digest ==
    /\ result.op = "canonicalId"
    /\ Len(result.digests) < MaxCalls
    /\ result' = [result EXCEPT !.digests =
                      Append(@, <<canonicalId(cmpExpected[1]), canonicalId(cmpExpected[2])>>)]
    /\ UNCHANGED <<dbVars, calls, runVars, cmpVars, runs, peer>>

NextDigest == Digest

SpecDigest == InitDigest /\ [][NextDigest]_vars

(***************************************************************************)
(* Properties.                                                             *)
(***************************************************************************)
Fps(l) == {canonicalId(l[i]) : i \in DOMAIN l}
HasRow(rows, id) == \E r \in rows : r.id = id
WithoutId(rows, id) == {r \in rows : r.id # id}
Attempted(c) == Executes(c)
\* the calls of a run, vetoed entries left out
RunCalls == [i \in DOMAIN steps |-> steps[i].call]
\* consecutive direct calls of the same migration
Pairs == {i \in DOMAIN calls : i + 1 \in DOMAIN calls /\ calls[i + 1].m = calls[i].m}
Unforced(c, mode) == ~c.force /\ c.mode = mode
Aborted == opts.abortOnUnexpected /\ Len(before.unexpected) > 0

\* C1: Abort safety: when before.unexpected is non-empty and abortOnUnexpected
\* is true, the run executes no script, visits no entry, leaves the ledger and
\* the schema as they were, and returns changes = [] with before = after.
C1_AbortSafety ==
    (pc \in {"summarize", "done"} /\ Aborted) =>
        /\ steps = <<>>
        /\ attempts = <<>>
        /\ log = <<>>
        /\ ledger = start.ledger
        /\ schema = start.schema
        /\ changes = <<>>
        /\ pc = "done" => before = after

C1_Witness ==
    /\ pc = "done"
    /\ Aborted
    /\ Len(before.missing) > 0

\* C2: Atomicity of a single apply: a call whose script fails throws and
\* leaves the ledger and the schema as they were; a call that returns has
\* committed both the script and the ledger statement or (returning false)
\* neither; the database is what the last call left.
C2_Atomicity ==
    /\ \A i \in DOMAIN calls :
        LET c == calls[i]
        IN /\ c.threw <=> (Attempted(c) /\ ~c.ok)
           /\ c.threw => c.ledgerAfter = c.ledgerBefore /\ c.schemaAfter = c.schemaBefore
           /\ (~c.threw /\ c.ret) =>
                /\ c.schemaAfter = Append(c.schemaBefore, Script(c.m, c.mode))
                /\ \E j \in DOMAIN c.ops : c.ops[j].op \in {"insert", "remove"}
           /\ (~c.threw /\ ~c.ret) =>
                c.ledgerAfter = c.ledgerBefore /\ c.schemaAfter = c.schemaBefore
    /\ calls # <<>> =>
        ledger = calls[Len(calls)].ledgerAfter /\ schema = calls[Len(calls)].schemaAfter

C2_Witness ==
    \E i \in DOMAIN calls :
        /\ Unforced(calls[i], "upgrade")
        /\ calls[i].threw
        /\ calls[i].ops = <<InsertOp(calls[i].m), ExecOp(calls[i].m.upgrade)>>
        /\ calls[i].ledgerBefore # {}
        /\ ledger = calls[i].ledgerBefore

\* C3: Diff partition: by fingerprint, shared and missing together are the
\* expected list, shared and unexpected together are the applied list, the
\* three lists are pairwise disjoint, and no list repeats a fingerprint.
C3_DiffPartition ==
    cmpDone =>
        LET sh == Fps(cmpResult.shared)
            mi == Fps(cmpResult.missing)
            un == Fps(cmpResult.unexpected)
        IN /\ sh \cup mi = Fps(cmpExpected)
           /\ sh \cup un = Fps(cmpApplied)
           /\ sh \cap mi = {}
           /\ sh \cap un = {}
           /\ mi \cap un = {}
           /\ Cardinality(sh) = Len(cmpResult.shared)
           /\ Cardinality(mi) = Len(cmpResult.missing)
           /\ Cardinality(un) = Len(cmpResult.unexpected)

\* a repeated fingerprint on the expected side, and a same-id pair that is
\* missing on one side and unexpected on the other
C3_Witness ==
    /\ cmpDone
    /\ Len(cmpExpected) = 2
    /\ cmpExpected[1] # cmpExpected[2]
    /\ Cardinality(Fps(cmpExpected)) = 1
    /\ Len(cmpResult.shared) = 1
    /\ Len(cmpResult.unexpected) = 1
    /\ cmpResult.unexpected[1].id = cmpResult.shared[1].id

\* C4: Idempotence of upgrade: over two consecutive non-forced upgrades of
\* the same migration the script is committed at most once, and when the
\* first call returned, the second executes nothing, returns false and leaves
\* the ledger unchanged.
C4_UpgradeIdempotent ==
    \A i \in Pairs :
        LET c == calls[i]
            d == calls[i + 1]
        IN (Unforced(c, "upgrade") /\ Unforced(d, "upgrade")) =>
            /\ Len(d.schemaAfter) - Len(c.schemaBefore) <= 1
            /\ ~c.threw =>
                /\ ~Attempted(d)
                /\ ~d.threw
                /\ d.ret = FALSE
                /\ d.ledgerAfter = d.ledgerBefore
                /\ d.schemaAfter = d.schemaBefore

C4_Witness ==
    \E i \in Pairs :
        /\ Unforced(calls[i], "upgrade")
        /\ Unforced(calls[i + 1], "upgrade")
        /\ calls[i].ret
        /\ ~calls[i + 1].ret
        /\ ~calls[i + 1].threw

\* C5 as stated: a non-forced upgrade followed by a non-forced downgrade of
\* the same migration, neither failing, returns the ledger to its pre-upgrade
\* state, for any starting ledger.
C5_RoundTripAnyLedger ==
    \A i \in Pairs :
        LET c == calls[i]
            d == calls[i + 1]
        IN (Unforced(c, "upgrade") /\ Unforced(d, "downgrade") /\ ~c.threw /\ ~d.threw) =>
            /\ d.ledgerAfter = c.ledgerBefore
            /\ ~HasRow(d.ledgerAfter, c.m.id)

\* C5, amended: a non-forced upgrade followed by a non-forced downgrade of the
\* same migration, neither failing, leaves no row of the migration's id and
\* every other row as it was; the ledger is back in its pre-upgrade state
\* exactly when that state held no row of the id.
C5_RoundTrip ==
    \A i \in Pairs :
        LET c == calls[i]
            d == calls[i + 1]
        IN (Unforced(c, "upgrade") /\ Unforced(d, "downgrade") /\ ~c.threw /\ ~d.threw) =>
            /\ ~HasRow(d.ledgerAfter, c.m.id)
            /\ d.ledgerAfter = WithoutId(c.ledgerBefore, c.m.id)
            /\ d.ret
            /\ (d.ledgerAfter = c.ledgerBefore) <=> ~HasRow(c.ledgerBefore, c.m.id)
            /\ (d.ledgerAfter = c.ledgerBefore) <=> c.ret

C5_Witness ==
    \E i \in Pairs :
        /\ Unforced(calls[i], "upgrade")
        /\ Unforced(calls[i + 1], "downgrade")
        /\ calls[i].ret
        /\ calls[i + 1].ret
        /\ calls[i].ledgerBefore # {}
        /\ calls[i + 1].ledgerAfter = calls[i].ledgerBefore

\* C6: A non-forced upgrade inserts with ignore-on-conflict keyed on id, then
\* executes the upgrade script if and only if no row of the id existed, and
\* returns true if and only if it executed the script.
C6_UnforcedUpgrade ==
    \A i \in DOMAIN calls :
        LET c == calls[i]
            had == HasRow(c.ledgerBefore, c.m.id)
        IN Unforced(c, "upgrade") =>
            /\ c.ops = IF had THEN <<InsertOp(c.m)>>
                       ELSE <<InsertOp(c.m), ExecOp(c.m.upgrade)>>
            /\ ~c.threw =>
                /\ c.ret <=> Attempted(c)
                /\ c.ledgerAfter = IF had THEN c.ledgerBefore ELSE c.ledgerBefore \cup {c.m}
                /\ c.schemaAfter = IF had THEN c.schemaBefore
                                   ELSE Append(c.schemaBefore, c.m.upgrade)

\* one call ignored on a row of the same id and another content, one applied
C6_Witness ==
    /\ \E i \in DOMAIN calls :
        /\ Unforced(calls[i], "upgrade")
        /\ HasRow(calls[i].ledgerBefore, calls[i].m.id)
        /\ calls[i].m \notin calls[i].ledgerBefore
        /\ ~calls[i].ret
    /\ \E i \in DOMAIN calls :
        /\ Unforced(calls[i], "upgrade")
        /\ calls[i].ret

\* C7: A non-forced downgrade deletes the row of the migration's id, then
\* executes the downgrade script if and only if a row was deleted, and returns
\* true if and only if it executed the script; without such a row the ledger
\* is unchanged and no script runs.
C7_UnforcedDowngrade ==
    \A i \in DOMAIN calls :
        LET c == calls[i]
            had == HasRow(c.ledgerBefore, c.m.id)
        IN Unforced(c, "downgrade") =>
            /\ c.ops = IF had THEN <<RemoveOp(c.m.id), ExecOp(c.m.downgrade)>>
                       ELSE <<RemoveOp(c.m.id)>>
            /\ ~had => ~c.threw /\ c.ledgerAfter = c.ledgerBefore
            /\ ~c.threw =>
                /\ c.ret <=> Attempted(c)
                /\ c.ledgerAfter = WithoutId(c.ledgerBefore, c.m.id)
                /\ c.schemaAfter = IF had THEN Append(c.schemaBefore, c.m.downgrade)
                                   ELSE c.schemaBefore

\* one call that deleted a row of the id and another content, one that found none
C7_Witness ==
    /\ \E i \in DOMAIN calls :
        /\ Unforced(calls[i], "downgrade")
        /\ HasRow(calls[i].ledgerBefore, calls[i].m.id)
        /\ calls[i].m \notin calls[i].ledgerBefore
        /\ calls[i].ret
    /\ \E i \in DOMAIN calls :
        /\ Unforced(calls[i], "downgrade")
        /\ ~calls[i].ret
        /\ ~calls[i].threw

\* C8: A forced apply executes the script of its direction first, whatever
\* the ledger holds, then performs the ledger statement of the direction in
\* the same transaction, and returns true.
C8_Forced ==
    \A i \in DOMAIN calls :
        LET c == calls[i]
            stmt == IF c.mode = "upgrade" THEN InsertOp(c.m) ELSE RemoveOp(c.m.id)
        IN c.force =>
            /\ c.ops # <<>>
            /\ c.ops[1] = ExecOp(Script(c.m, c.mode))
            /\ c.threw <=> ~c.ok
            /\ ~c.threw =>
                /\ c.ret = TRUE
                /\ c.ops = <<ExecOp(Script(c.m, c.mode)), stmt>>
                /\ c.schemaAfter = Append(c.schemaBefore, Script(c.m, c.mode))
                /\ c.ledgerAfter =
                     IF c.mode = "downgrade" THEN WithoutId(c.ledgerBefore, c.m.id)
                     ELSE IF HasRow(c.ledgerBefore, c.m.id) THEN c.ledgerBefore
                     ELSE c.ledgerBefore \cup {c.m}

\* a forced upgrade over a row of the id, and a forced downgrade without one
C8_Witness ==
    /\ \E i \in DOMAIN calls :
        /\ calls[i].force
        /\ calls[i].mode = "upgrade"
        /\ HasRow(calls[i].ledgerBefore, calls[i].m.id)
        /\ calls[i].ret
    /\ \E i \in DOMAIN calls :
        /\ calls[i].force
        /\ calls[i].mode = "downgrade"
        /\ ~HasRow(calls[i].ledgerBefore, calls[i].m.id)
        /\ calls[i].ret

\* whether the run changed the ledger or committed a script
Mutated ==
    \E i \in DOMAIN steps :
        \/ steps[i].call.ledgerAfter # steps[i].call.ledgerBefore
        \/ steps[i].call.schemaAfter # steps[i].call.schemaBefore

\* C9 as stated: for a completed run, changes is empty iff before = after iff
\* no mutation occurred.
C9_ChangesIffBeforeIsAfter ==
    pc = "done" =>
        /\ (changes = <<>>) <=> (before = after)
        /\ (before = after) <=> ~Mutated

\* C9, amended: for a completed run, changes is empty iff no mutation
\* occurred, and then before = after; before = after with changes not empty
\* happens exactly in the run that reran the latest migration.
C9_ChangesIffMutated ==
    pc = "done" =>
        /\ (changes = <<>>) <=> ~Mutated
        /\ ~Mutated <=> (ledger = start.ledger /\ schema = start.schema)
        /\ changes = <<>> => before = after
        /\ (before = after /\ changes # <<>>) <=> applyLatest(opts, before)
        /\ applyLatest(opts, before) =>
            /\ changes = <<<<before.shared[Len(before.shared)], "upgrade">>>>
            /\ ledger = start.ledger

C9_Witness ==
    /\ pc = "done"
    /\ applyLatest(opts, before)
    /\ before = after
    /\ Len(changes) = 1

StrictlyDescending(ids) == \A i, j \in DOMAIN ids : i < j => ids[i] > ids[j]

\* C10: Reconcile-unexpected order: the entries of before.unexpected are
\* visited, and their downgrades attempted, from the highest id to the
\* lowest, so the downgrade entries of changes have strictly descending ids.
C10_DowngradeOrder ==
    LET visited == SelectSeq(steps, LAMBDA st : st.call.mode = "downgrade")
        tried == SelectSeq(visited, LAMBDA st : st.approved)
        down == SelectSeq(changes, LAMBDA ch : ch[2] = "downgrade")
        rest == IF pc = "downgrade" THEN todo ELSE <<>>
    IN /\ StrictlyDescending([i \in DOMAIN visited |-> visited[i].call.m.id])
       /\ StrictlyDescending([i \in DOMAIN tried |-> tried[i].call.m.id])
       /\ StrictlyDescending([i \in DOMAIN down |-> down[i][1].id])
       /\ (visited # <<>> /\ pc # "failed") =>
            [i \in DOMAIN visited |-> visited[i].call.m] \o rest = Reverse(before.unexpected)

C10_Witness ==
    /\ pc = "done"
    /\ Len(changes) >= 2
    /\ changes[1][2] = "downgrade"
    /\ changes[2][2] = "downgrade"

StrictlyAscending(ids) == \A i, j \in DOMAIN ids : i < j => ids[i] < ids[j]
\* the entries the walks visited (the rerun of the latest is no walk entry)
Walked(mode) == SelectSeq(steps, LAMBDA st : st.call.mode = mode /\ ~st.call.force)
Count(seq, Test(_)) == Len(SelectSeq(seq, Test))

\* C11: Reconcile-missing order: the entries of before.missing are visited,
\* and their upgrades attempted, from the lowest id to the highest, so the
\* upgrade entries of changes have strictly ascending ids.
C11_UpgradeOrder ==
    LET visited == Walked("upgrade")
        tried == SelectSeq(visited, LAMBDA st : st.approved)
        up == SelectSeq(changes, LAMBDA ch : ch[2] = "upgrade")
        rest == IF pc = "upgrade" THEN todo ELSE <<>>
    IN /\ StrictlyAscending([i \in DOMAIN visited |-> visited[i].call.m.id])
       /\ StrictlyAscending([i \in DOMAIN tried |-> tried[i].call.m.id])
       /\ StrictlyAscending([i \in DOMAIN up |-> up[i][1].id])
       /\ (visited # <<>> /\ pc # "failed") =>
            [i \in DOMAIN visited |-> visited[i].call.m] \o rest = before.missing

C11_Witness ==
    /\ pc = "done"
    /\ Len(changes) >= 2
    /\ changes[1][2] = "upgrade"
    /\ changes[2][2] = "upgrade"

\* C12: Downgrades precede upgrades: no entry of unexpected is visited after
\* an entry of missing, every entry of unexpected has been visited when the
\* first entry of missing is, and in changes no upgrade precedes a downgrade.
C12_DowngradesFirst ==
    /\ \A i, j \in DOMAIN steps :
        (steps[i].call.mode = "downgrade" /\ steps[j].call.mode = "upgrade") => i < j
    /\ \A i, j \in DOMAIN changes :
        (changes[i][2] = "downgrade" /\ changes[j][2] = "upgrade") => i < j
    /\ (pc = "upgrade" \/ Walked("upgrade") # <<>>) =>
        /\ Len(Walked("downgrade")) = Len(before.unexpected)
        /\ Len(before.unexpected) > 0 => ~opts.abortOnUnexpected

C12_Witness ==
    /\ pc = "done"
    /\ Len(changes) >= 2
    /\ changes[1][2] = "downgrade"
    /\ changes[Len(changes)][2] = "upgrade"
    /\ changes[1][1].id = changes[Len(changes)][1].id

\* C13: Veto and success-only recording: a vetoed entry is not attempted (no
\* statement, no script, no message, the database as it was), and changes
\* holds, in order, exactly the entries whose apply was made and returned true.
C13_VetoAndRecording ==
    LET recorded == SelectSeq(steps, LAMBDA st : st.approved /\ ~st.call.threw /\ st.call.ret)
    IN /\ \A i \in DOMAIN steps :
            LET c == steps[i].call
            IN /\ ~steps[i].approved =>
                    c.ops = <<>> /\ c.ledgerAfter = c.ledgerBefore /\ c.schemaAfter = c.schemaBefore
               /\ c.ledgerBefore = IF i = 1 THEN start.ledger ELSE steps[i - 1].call.ledgerAfter
               /\ c.schemaBefore = IF i = 1 THEN start.schema ELSE steps[i - 1].call.schemaAfter
       /\ steps # <<>> =>
            ledger = steps[Len(steps)].call.ledgerAfter /\ schema = steps[Len(steps)].call.schemaAfter
       /\ Len(attempts) = Count(steps, LAMBDA st : Executes(st.call))
       /\ Len(log) = 2 * Count(steps, LAMBDA st : st.approved)
       /\ changes = [i \in DOMAIN recorded |-> <<recorded[i].call.m, recorded[i].call.mode>>]

\* a vetoed entry, an entry applied, and an entry whose apply returned false
C13_Witness ==
    /\ pc = "done"
    /\ \E i \in DOMAIN steps : ~steps[i].approved
    /\ \E i \in DOMAIN steps : steps[i].approved /\ steps[i].call.ret
    /\ \E i \in DOMAIN steps : steps[i].approved /\ ~steps[i].call.ret

Forced == \E i \in DOMAIN steps : steps[i].call.force
\* the guard of the rerun as the claim words it
SynchronizedAtLoad ==
    /\ before.shared # <<>>
    /\ before.missing = <<>>
    /\ before.unexpected = <<>>

\* C14: Rerun-latest guard: the run makes the forced apply if and only if
\* forceLatestIfSynchronized is set and, at Load, missing and unexpected are
\* empty and shared is not.
C14_RerunGuard ==
    /\ Forced => (opts.forceLatestIfSynchronized /\ SynchronizedAtLoad)
    /\ pc = "latest" => (opts.forceLatestIfSynchronized /\ SynchronizedAtLoad /\ ~Forced)
    /\ pc \in {"summarize", "done"} =>
        /\ Forced <=> (opts.forceLatestIfSynchronized /\ SynchronizedAtLoad)
        /\ before = compareMigrationState(expected, readMigrationsTable(start.ledger))
    /\ Count(steps, LAMBDA st : st.call.force) <= 1

\* the option set on a database that was not synchronized: no forced apply
C14_Witness ==
    /\ pc = "done"
    /\ opts.forceLatestIfSynchronized
    /\ before.shared # <<>>
    /\ before.missing # <<>>
    /\ before.unexpected = <<>>
    /\ changes # <<>>
    /\ ~Forced

\* C15: Rerun-latest effect: on a synchronized database with the rerun
\* requested, the upgrade script of the highest-id migration of before.shared
\* is executed again, forced, and changes is that one upgrade, although the
\* ledger already held the row, which stays as it was.
C15_RerunEffect ==
    (pc = "done" /\ opts.forceLatestIfSynchronized /\ SynchronizedAtLoad) =>
        \E l \in {before.shared[i] : i \in DOMAIN before.shared} :
            /\ \A i \in DOMAIN before.shared : before.shared[i].id <= l.id
            /\ canonicalId(l) \in {canonicalId(r) : r \in start.ledger}
            /\ changes = <<<<l, "upgrade">>>>
            /\ Len(steps) = 1
            /\ steps[1].call.force
            /\ steps[1].call.ops = <<ExecOp(l.upgrade), InsertOp(l)>>
            /\ attempts = <<[sql |-> l.upgrade, ok |-> TRUE]>>
            /\ schema = Append(start.schema, l.upgrade)
            /\ ledger = start.ledger

C15_Witness ==
    /\ pc = "done"
    /\ opts.forceLatestIfSynchronized
    /\ SynchronizedAtLoad
    /\ Len(before.shared) = 2
    /\ changes # <<>>

ScriptFailed == pc = "failed" /\ error = "script failed"
Range(l) == {l[i] : i \in DOMAIN l}

C17_StopOnFailure ==
    /\ \A i \in DOMAIN steps :
        steps[i].call.threw => (i = Len(steps) /\ ScriptFailed)
    /\ \A i \in DOMAIN attempts : ~attempts[i].ok => i = Len(attempts)
    /\ pc = "failed" => (~ENABLED Next /\ after = NoState)
    /\ ScriptFailed =>
        /\ steps[Len(steps)].call.threw
        /\ ~attempts[Len(attempts)].ok
        /\ log[Len(log)].kind = "failed"

\* a downgrade failed with another downgrade and upgrades still queued
C17_Witness ==
    /\ ScriptFailed
    /\ Len(steps) = 1
    /\ Len(todo) >= 2
    /\ before.missing # <<>>

RECURSIVE Replay(_, _)
\* the ledger and schema that the recorded changes, and nothing else, produce
Replay(db, chs) ==
    IF chs = <<>> THEN db
    ELSE LET m == Head(chs)[1]
             mode == Head(chs)[2]
         IN Replay([ledger |-> IF mode = "upgrade" THEN db.ledger \cup {m}
                                ELSE WithoutId(db.ledger, m.id),
                    schema |-> Append(db.schema, Script(m, mode))],
                   Tail(chs))

\* C18: No global rollback: when an apply fails in a run, the applies that
\* succeeded before it in the run stay committed, ledger change and script
\* effect alike, and the failing migration alone leaves the database as it
\* was before its call.
C18_NoGlobalRollback ==
    ScriptFailed =>
        LET f == steps[Len(steps)].call
            kept == Replay(start, changes)
        IN /\ ledger = f.ledgerBefore
           /\ schema = f.schemaBefore
           /\ HasRow(ledger, f.m.id) <=> HasRow(f.ledgerBefore, f.m.id)
           /\ ledger = kept.ledger
           /\ schema = kept.schema

C18_Witness ==
    /\ ScriptFailed
    /\ Len(changes) >= 1
    /\ ledger # start.ledger
    /\ schema # start.schema

UniqueIds(l) == \A i, j \in DOMAIN l : l[i].id = l[j].id => i = j
SameContent(e, a) ==
    /\ Trim(e.name) = Trim(a.name)
    /\ Trim(e.upgrade) = Trim(a.upgrade)
    /\ Trim(e.downgrade) = Trim(a.downgrade)

Ascending(l) == \A i, j \in DOMAIN l : i < j => l[i].id <= l[j].id

\* C20: Each of the three lists compareMigrationState returns (shared,
\* missing, unexpected) is sorted ascending by id, whatever the order of the
\* inputs.
C20_SortedById ==
    cmpDone =>
        /\ Ascending(cmpResult.shared)
        /\ Ascending(cmpResult.missing)
        /\ Ascending(cmpResult.unexpected)

\* the expected migrations given in descending order come back ascending
C20_Witness ==
    /\ cmpDone
    /\ Len(cmpExpected) = 2
    /\ cmpExpected[1].id > cmpExpected[2].id
    /\ Len(cmpResult.missing) = 2
    /\ cmpResult.missing[1] = cmpExpected[2]
    /\ cmpResult.unexpected # <<>>

(***************************************************************************)
(* C21.  canonicalId gives the same fingerprint on every call, and the     *)
(* fingerprints of two migrations differ if and only if they differ in id, *)
(* trimmed name, trimmed upgrade or trimmed downgrade.                     *)
(***************************************************************************)
SameFields(m, o) ==
    /\ m.id = o.id
    /\ Trim(m.name) = Trim(o.name)
    /\ Trim(m.upgrade) = Trim(o.upgrade)
    /\ Trim(m.downgrade) = Trim(o.downgrade)

Digested == result.op = "canonicalId" /\ Len(result.digests) >= 2

\* the claim as stated: fails on two migrations whose scripts share the line
\* "downgrade:" between them
C21_FingerprintInjective ==
    Digested =>
        /\ \A i, j \in DOMAIN result.digests : result.digests[i] = result.digests[j]
        /\ (result.digests[1][1] # result.digests[1][2])
               <=> ~SameFields(cmpExpected[1], cmpExpected[2])

\* what the code does guarantee: repeated calls agree, and equal fields give
\* equal fingerprints
C21_FingerprintOfFields ==
    Digested =>
        /\ \A i, j \in DOMAIN result.digests : result.digests[i] = result.digests[j]
        /\ SameFields(cmpExpected[1], cmpExpected[2])
               => result.digests[1][1] = result.digests[1][2]

\* two migrations of other scripts and one fingerprint
C21_Witness ==
    /\ Digested
    /\ cmpExpected[1].upgrade # cmpExpected[2].upgrade
    /\ Trim(cmpExpected[1].upgrade) = cmpExpected[1].upgrade
    /\ Trim(cmpExpected[2].upgrade) = cmpExpected[2].upgrade
    /\ result.digests[2][1] = result.digests[1][2]

(***************************************************************************)
(* C22.  Every apply a synchronize run attempts is reported by a           *)
(* 'starting' message before it and by exactly one 'finished' (it          *)
(* returned) or 'failed' (it threw) message after it, before any later     *)
(* apply starts; a vetoed entry is not reported.  The log is therefore     *)
(* the pairs of messages of the approved steps, in their order.            *)
(***************************************************************************)
Approved == SelectSeq(steps, LAMBDA st : st.approved)

C22_CallbackProtocol ==
    /\ Len(log) = 2 * Len(Approved)
    /\ \A k \in DOMAIN Approved :
        LET c == Approved[k].call
        IN /\ log[2 * k - 1] = Message("starting", c.m, c.mode)
           /\ log[2 * k] = Message(IF c.threw THEN "failed" ELSE "finished", c.m, c.mode)

\* a run with a vetoed entry, an apply that returned and one that threw
C22_Witness ==
    /\ pc = "failed"
    /\ \E i \in DOMAIN steps : ~steps[i].approved
    /\ Len(log) = 4
    /\ log[2].kind = "finished"
    /\ log[4].kind = "failed"

(***************************************************************************)
(* C23.  When two or more candidate files of a directory parse to the same *)
(* id, readMigrationsDir fails for the whole directory, returning no       *)
(* migrations, with an error that names every id that occurs more than     *)
(* once.                                                                   *)
(***************************************************************************)
ReadDone == result.op = "readMigrationsDir"

\* the files of a directory as parseMigrationFile takes them, one by one
Parsed(d) == {parseMigrationFile(f) : f \in d}
Malformed(d) == \E p \in Parsed(d) : p.kind = "malformed migration"
\* the ids that two files of the directory or more parse to
DuplicatedIds(d) ==
    The({{p.m.id : p \in {q \in ps : /\ q.kind = "migration"
                                          /\ \E o \in ps : /\ o # q
                                                           /\ o.kind = "migration"
                                                           /\ o.m.id = q.m.id}} :
             ps \in {Parsed(d)}})

SetupErrors == {"duplicate ids", "malformed migration"}

C24_SetupBeforeDatabase ==
    [][(pc' = "failed" /\ error' \in SetupErrors) =>
           /\ pc = "idle"
           /\ UNCHANGED <<tableExists, ledger, schema, attempts>>
           /\ before' = NoState
           /\ steps' = <<>>
           /\ log' = <<>>]_vars

\* a run that failed on duplicate ids over a database without the table
C24_Witness ==
    /\ pc = "failed"
    /\ error = "duplicate ids"
    /\ ~tableExists
    /\ \E f, g \in dir : f # g

(***************************************************************************)
(* C25.  A file whose name matches the pattern and whose text lacks the    *)
(* downgrade delimiter, or has a downgrade section that is empty once its  *)
(* comment lines are stripped and it is trimmed, makes the read of its     *)
(* directory and the parse of the file alone fail with an error that       *)
(* identifies the file.                                                    *)
(***************************************************************************)
LacksDelimiter(t) == \A i \in 1 .. Len(t) : DelimiterEnd(t, i) = 0
\* the text between the first delimiter and the next one, or the end
DowngradeSection(t) == Split(t, 1, 1)[2]
MalformedText(t) == LacksDelimiter(t) \/ Clean(DowngradeSection(t)) = <<>>
MalformedCandidates(d) == {f \in d : MatchFilename(f.name).ok /\ MalformedText(f.text)}

MatchesPattern(s) ==
    \E k \in 1 .. Len(s) :
        /\ \A j \in 1 .. k : s[j] \in DigitSet
        /\ Len(s) >= k + 6
        /\ s[k + 1] = "."
        /\ SubSeq(s, Len(s) - 3, Len(s)) = SqlSuffix
        /\ \A j \in (k + 2) .. (Len(s) - 4) : s[j] # "\n"

NonCandidates(d) == {f \in d : ~MatchesPattern(f.name)}
FileNamed(d, n) == CHOOSE f \in d : f.name = n
\* the listing of the last read, and the same without the non-candidates
ListingRead == [i \in DOMAIN result.listing |-> FileNamed(result.dirBefore, result.listing[i])]
CandidatesRead == SelectSeq(ListingRead, LAMBDA f : MatchesPattern(f.name))

C26_NonCandidatesIgnored ==
    ReadDone =>
        /\ \A f \in NonCandidates(result.dirBefore), i \in DOMAIN result.read :
               result.read[i] # f.name
        /\ \E rd \in {readMigrationsDir(CandidatesRead)} :
               /\ result.migrations = rd.migrations
               /\ result.error = rd.error
               /\ result.invalidIds = rd.invalidIds
               /\ result.file = rd.file
               /\ result.read = rd.read
        /\ NonCandidates(result.dirBefore) = result.dirBefore =>
               result.error = "none" /\ result.migrations = <<>>

\* a well-formed file of another name next to a migration that is returned
C26_Witness ==
    /\ ReadDone
    /\ result.error = "none"
    /\ Len(result.migrations) = 1
    /\ \E f \in NonCandidates(result.dirBefore) : ~MalformedText(f.text)

(***************************************************************************)
(* C27.  Every migration that parseMigrationFile or readMigrationsDir      *)
(* produces has a non-empty upgrade text and a non-empty downgrade text    *)
(* after trimming.                                                         *)
(***************************************************************************)
Produced == IF result.op \in {"readMigrationsDir", "init"} THEN Range(result.migrations) ELSE {}

\* the claim as stated: fails on a file whose text begins with the delimiter
C27_WellFormedOnly ==
    \A m \in Produced : Trim(m.upgrade) # <<>> /\ Trim(m.downgrade) # <<>>

\* what the code does guarantee: the downgrade text is not empty
C27_DowngradeNotEmpty ==
    \A m \in Produced : Trim(m.downgrade) # <<>>

\* a migration without upgrade text, read from a directory
C27_Witness ==
    /\ ReadDone
    /\ result.error = "none"
    /\ \E m \in Produced : m.upgrade = <<>> /\ m.downgrade # <<>>

(***************************************************************************)
(* C28.  trudge new, trudge upgrade and trudge downgrade, given a path     *)
(* whose base name does not match the pattern, fail with the malformed     *)
(* filename error, write no file and apply nothing to the database.        *)
(***************************************************************************)
SingleFileDone == result.op \in {"new", "init"} /\ ~MatchesPattern(result.arg)
Untouched ==
    /\ ~result.wrote
    /\ dir = result.dirBefore
    /\ ~tableExists
    /\ ledger = {}
    /\ schema = <<>>
    /\ attempts = <<>>

\* the claim as stated: fails on trudge new, which never reports the name
C28_MalformedFilenameFatal ==
    SingleFileDone => result.error = "malformed filename" /\ Untouched

\* what the code does guarantee: the command fails and touches nothing, and
\* the init of upgrade / downgrade reports the name
C28_MalformedFilenameFails ==
    SingleFileDone =>
        /\ result.error # "none"
        /\ Untouched
        /\ result.op = "init" => result.error = "malformed filename" /\ result.file = result.arg

\* trudge new on a name without id, ended by the TypeError of canonicalId
C28_Witness ==
    /\ result.op = "new"
    /\ ~MatchesPattern(result.arg)
    /\ result.error = "type error"
    /\ result.dirBefore # {}

(***************************************************************************)
(* C29.  After a synchronize run with the default options has completed,   *)
(* a second run with the default options over the same directory and       *)
(* database returns no changes, has before equal to after, and executes    *)
(* no script.                                                              *)
(***************************************************************************)
C29_SecondRunIdle ==
    runs # <<>> =>
        /\ pc # "failed"
        /\ attempts = runs[Len(runs)].database.attempts
        /\ ledger = runs[Len(runs)].database.ledger
        /\ schema = runs[Len(runs)].database.schema
        /\ pc = "done" => changes = <<>> /\ before = after

\* a second run completed after a first run that applied two migrations
C29_Witness ==
    /\ runs # <<>>
    /\ pc = "done"
    /\ Len(runs[1].changes) = 2
    /\ Len(before.shared) = 2

(***************************************************************************)
(* C30.  From any ledger and any directory of unique ids, a synchronize    *)
(* run with abortOnUnexpected false in which both predicates approve every *)
(* migration and no script fails returns after.missing = [] and            *)
(* after.unexpected = [], with after.shared the expected set.              *)
(***************************************************************************)
AllApproved == \A i \in DOMAIN steps : steps[i].approved

C30_Convergence ==
    (pc = "done" /\ ~opts.abortOnUnexpected /\ AllApproved) =>
        /\ after.missing = <<>>
        /\ after.unexpected = <<>>
        /\ Len(after.shared) = Len(expected)
        /\ Range(after.shared) = Range(expected)
        /\ ledger = Range(expected)

\* a run that downgraded a row and upgraded a migration of the same id
C30_Witness ==
    /\ pc = "done"
    /\ ~opts.abortOnUnexpected
    /\ AllApproved
    /\ Len(before.unexpected) > 0
    /\ Len(before.missing) = 2
    /\ \E i, j \in DOMAIN changes :
           /\ changes[i][2] = "downgrade"
           /\ changes[j][2] = "upgrade"
           /\ changes[i][1].id = changes[j][1].id

(***************************************************************************)
(* C31.  When a synchronize run that did not abort completes normally,     *)
(* every migration of before.missing that shouldApplyUpgrade approved has  *)
(* been upgraded: it is in changes as an upgrade and in after.shared,      *)
(* whatever the downgrade predicate chose.                                 *)
(***************************************************************************)
\* the steps of the forEach over before.missing
UpgradeSteps == SelectSeq(steps, LAMBDA st : st.call.mode = "upgrade" /\ ~st.call.force)
Upgraded(m) ==
    /\ \E i \in DOMAIN changes : changes[i] = <<m, "upgrade">>
    /\ canonicalId(m) \in Fps(after.shared)

ForcedUpgrades == {i \in DOMAIN calls : calls[i].force /\ calls[i].mode = "upgrade"
                                           /\ ~calls[i].threw}
RowOf(rows, id) == {r \in rows : r.id = id}

\* the claim as stated: fails when the ledger held a row of the id with
\* another content, which INSERT OR IGNORE keeps
C32_ForcedUpgradeRecords ==
    \A i \in ForcedUpgrades :
        /\ RowOf(calls[i].ledgerAfter, calls[i].m.id) # {}
        /\ \A r \in RowOf(calls[i].ledgerAfter, calls[i].m.id) :
               canonicalId(r) = canonicalId(calls[i].m)

\* what the code does guarantee: the row of the id is the one that was
\* there, or that of m when there was none
C32_ForcedUpgradeKeepsRow ==
    \A i \in ForcedUpgrades :
        RowOf(calls[i].ledgerAfter, calls[i].m.id) =
            IF HasRow(calls[i].ledgerBefore, calls[i].m.id)
            THEN RowOf(calls[i].ledgerBefore, calls[i].m.id)
            ELSE {calls[i].m}

\* a forced upgrade that ran its script over a row of another content
C32_Witness ==
    \E i \in ForcedUpgrades :
        /\ Executes(calls[i])
        /\ \E r \in calls[i].ledgerAfter :
               r.id = calls[i].m.id /\ canonicalId(r) # canonicalId(calls[i].m)

(***************************************************************************)
(* C33.  A non-forced downgrade of a migration m removes a ledger row and  *)
(* executes the downgrade script of m only when the ledger row of id m.id  *)
(* has the fingerprint of m; a row of the same id and another content is   *)
(* left in place and no script runs.                                       *)
(***************************************************************************)
HasFingerprint(rows, m) == \E r \in rows : canonicalId(r) = canonicalId(m)
UnforcedDowngrades == {i \in DOMAIN calls : ~calls[i].force /\ calls[i].mode = "downgrade"}

\* the claim as stated: fails because the row is deleted by id
C33_DowngradeByFingerprint ==
    \A i \in UnforcedDowngrades :
        ~HasFingerprint(calls[i].ledgerBefore, calls[i].m)
            => /\ calls[i].ledgerAfter = calls[i].ledgerBefore
               /\ ~Executes(calls[i])

\* what the code does: the row of the id, whatever its content, decides
C33_DowngradeById ==
    \A i \in UnforcedDowngrades :
        /\ Executes(calls[i]) <=> HasRow(calls[i].ledgerBefore, calls[i].m.id)
        /\ ~calls[i].threw
               => calls[i].ledgerAfter = WithoutId(calls[i].ledgerBefore, calls[i].m.id)

\* a non-forced downgrade of m that removed a row of another content and
\* ran the downgrade script of m
C33_Witness ==
    \E i \in UnforcedDowngrades :
        /\ ~calls[i].threw
        /\ Executes(calls[i])
        /\ ~HasFingerprint(calls[i].ledgerBefore, calls[i].m)
        /\ calls[i].ledgerAfter # calls[i].ledgerBefore

(***************************************************************************)
(* C34.  When a non-forced upgrade fails after its ledger insert and       *)
(* before its upgrade script has completed, the ledger is left holding the *)
(* row of the migration although its schema change did not happen.         *)
(***************************************************************************)
\* the non-forced upgrades whose insert added the row and whose script threw
FailedUpgrades == {i \in DOMAIN calls : /\ ~calls[i].force
                                        /\ calls[i].mode = "upgrade"
                                        /\ ~HasRow(calls[i].ledgerBefore, calls[i].m.id)
                                        /\ Executes(calls[i])
                                        /\ calls[i].threw}

\* the claim as stated: fails because the insert and the script are in one
\* transaction, which the failure rolls back
C34_FailureLeavesRow ==
    \A i \in FailedUpgrades :
        /\ calls[i].m \in calls[i].ledgerAfter
        /\ calls[i].schemaAfter = calls[i].schemaBefore

\* the failure leaves neither the row nor the schema change
C34_FailureRollsBack ==
    \A i \in FailedUpgrades :
        /\ calls[i].ledgerAfter = calls[i].ledgerBefore
        /\ ~HasRow(calls[i].ledgerAfter, calls[i].m.id)
        /\ calls[i].schemaAfter = calls[i].schemaBefore
        /\ ~calls[i].ret

\* a non-forced upgrade that inserted its row and then failed in its script
C34_Witness ==
    \E i \in FailedUpgrades :
        /\ calls[i].ops[1].op = "insert"
        /\ calls[i].ops[Len(calls[i].ops)].op = "exec"
        /\ calls[i].m \notin calls[i].ledgerAfter

(***************************************************************************)
(* C35.  Change accounting: for every completed synchronize run, by        *)
(* fingerprint, after.shared is before.shared plus the upgrade entries of  *)
(* changes, after.missing is before.missing minus the upgrade entries of   *)
(* changes, and after.unexpected is before.unexpected minus the downgrade  *)
(* entries of changes.                                                     *)
(***************************************************************************)
ChangedFps(mode) ==
    {canonicalId(changes[i][1]) : i \in {j \in DOMAIN changes : changes[j][2] = mode}}

C35_ChangeAccounting ==
    pc = "done" =>
        /\ Fps(after.shared) = Fps(before.shared) \cup ChangedFps("upgrade")
        /\ Fps(after.missing) = Fps(before.missing) \ ChangedFps("upgrade")
        /\ Fps(after.unexpected) = Fps(before.unexpected) \ ChangedFps("downgrade")

\* a completed run that downgraded one migration, upgraded another, and
\* left a vetoed one where it was
C35_Witness ==
    /\ pc = "done"
    /\ ChangedFps("upgrade") # {}
    /\ ChangedFps("downgrade") # {}
    /\ \E k \in DOMAIN steps : ~steps[k].approved
    /\ Fps(after.unexpected) \cup Fps(after.missing) # {}

(***************************************************************************)
(* C36.  Shared rows are framed: a synchronize run, under every option     *)
(* combination and also when it ends in a script failure, never deletes or *)
(* alters the ledger row of a migration of before.shared and never         *)
(* executes the downgrade script of such a migration.                      *)
(***************************************************************************)
C36_SharedFramed ==
    pc # "idle" =>
        \A i \in DOMAIN before.shared :
            /\ RowOf(start.ledger, before.shared[i].id) # {}
            /\ RowOf(ledger, before.shared[i].id) = RowOf(start.ledger, before.shared[i].id)
            /\ HasFingerprint(ledger, before.shared[i])
            /\ \A k \in DOMAIN steps :
                   steps[k].call.mode = "downgrade"
                       => /\ steps[k].call.m.id # before.shared[i].id
                          /\ canonicalId(steps[k].call.m) # canonicalId(before.shared[i])

\* a run with a shared migration that downgraded an unexpected row and then
\* failed in an upgrade script
C36_Witness ==
    /\ pc = "failed"
    /\ before.shared # <<>>
    /\ \E k \in DOMAIN steps : /\ steps[k].call.mode = "downgrade"
                               /\ Executes(steps[k].call)
                               /\ ~steps[k].call.threw
    /\ \E k \in DOMAIN steps : steps[k].call.mode = "upgrade" /\ steps[k].call.threw

\* a fully synchronized run that replayed its latest shared migration
C36_WitnessRerun ==
    /\ pc = "done"
    /\ before.shared # <<>>
    /\ \E k \in DOMAIN steps : steps[k].call.force /\ Executes(steps[k].call)

(***************************************************************************)
(* C37.  Ledger key uniqueness: after any sequence of forced and           *)
(* non-forced applies, successful or failed, the ledger holds at most one  *)
(* row per id; a row is only ever added by an upgrade apply and only ever  *)
(* removed by a downgrade apply.                                           *)
(***************************************************************************)
OneRowPerId(rows) == \A r, q \in rows : r.id = q.id => r = q

C37_KeyUniqueness ==
    /\ OneRowPerId(ledger)
    /\ \A i \in DOMAIN calls :
           /\ OneRowPerId(calls[i].ledgerAfter)
           /\ calls[i].ledgerAfter \ calls[i].ledgerBefore # {}
                  => calls[i].mode = "upgrade"
           /\ calls[i].ledgerBefore \ calls[i].ledgerAfter # {}
                  => calls[i].mode = "downgrade"
           /\ i > 1 => calls[i].ledgerBefore = calls[i - 1].ledgerAfter
    /\ calls # <<>> => ledger = calls[Len(calls)].ledgerAfter

\* a sequence with a forced upgrade of an id whose row holds another
\* content, and a downgrade that removed a row
C37_Witness ==
    /\ \E i \in DOMAIN calls :
           /\ calls[i].mode = "upgrade" /\ calls[i].force /\ ~calls[i].threw
           /\ HasRow(calls[i].ledgerBefore, calls[i].m.id)
           /\ calls[i].m \notin calls[i].ledgerBefore
    /\ \E i \in DOMAIN calls : calls[i].ledgerBefore \ calls[i].ledgerAfter # {}

(***************************************************************************)
(* C38.  Two synchronize runs over the same directory and the same ledger, *)
(* interleaved between their apply transactions, with no unexpected        *)
(* migration at Load and the default options: the upgrade script of each   *)
(* missing migration is executed exactly once in total, and the migration  *)
(* is in the changes of exactly one of the two runs.  Exactly once is for  *)
(* the two runs having returned; while they go on, and when a script       *)
(* fails, at most one execution of the script commits and at most one run  *)
(* has the migration in its changes.                                       *)
(***************************************************************************)
\* both runs have read the directory and the ledger, and found no unexpected row
PairLoaded ==
    /\ pc \in {"upgrade", "summarize", "done", "failed"}
    /\ peer.pc \in {"upgrade", "summarize", "done", "failed"}
    /\ expected # <<>> /\ peer.expected # <<>>
    /\ before.unexpected = <<>> /\ peer.before.unexpected = <<>>
PairSteps == steps \o peer.steps
\* the upgrade calls of m that reached db.exec, and those that committed
Executions(m) ==
    Count(PairSteps, LAMBDA st : st.call.m = m /\ st.call.mode = "upgrade"
                                     /\ Executes(st.call))
Commits(m) ==
    Count(PairSteps, LAMBDA st : st.call.m = m /\ st.call.mode = "upgrade"
                                     /\ Executes(st.call) /\ ~st.call.threw)
InChanges(c, m) == \E i \in DOMAIN c : c[i] = <<m, "upgrade">>
PairMissing == Range(before.missing) \cup Range(peer.before.missing)

C38_ExactlyOnce ==
    PairLoaded =>
        \A m \in PairMissing :
            /\ Commits(m) <= 1
            /\ ~(InChanges(changes, m) /\ InChanges(peer.changes, m))
            /\ (pc = "done" /\ peer.pc = "done") =>
                   /\ Executions(m) = 1
                   /\ Commits(m) = 1
                   /\ InChanges(changes, m) # InChanges(peer.changes, m)

\* both runs found the same two migrations missing and completed, each with
\* one of them in its changes
C38_Witness ==
    /\ PairLoaded
    /\ pc = "done" /\ peer.pc = "done"
    /\ Len(before.missing) = 2 /\ peer.before.missing = before.missing
    /\ Len(changes) = 1 /\ Len(peer.changes) = 1
    /\ Len(steps) = 2 /\ Len(peer.steps) = 2

====
